---- MODULE Spec2Model ----
(***************************************************************************)
(* A model of lecturenote-ai's server: the chapter orchestrator            *)
(* (processLectureBackground and the endpoints that start it), the startup *)
(* recovery of initDB, and the LLM gateway's retry loop                    *)
(* (GeminiProvider.generateContent).                                       *)
(*                                                                         *)
(* The server is one Node process: code between two awaits runs            *)
(* atomically, and every await is a point where another handler or         *)
(* background run may be scheduled.  Each action below is one such atomic  *)
(* stretch, together with the database statement it awaits.                *)
(***************************************************************************)
EXTENDS Integers, Sequences, FiniteSets, TLC

\* ------------------------------------------------------------------ bounds
NumChapters == 2      \* chapters of the one lecture that is modelled
MaxRuns == 2          \* invocations of processLectureBackground per process life
MaxDbFaults == 1      \* database statements that may reject per process life
MaxRegens == 1        \* regenerate requests per process life
MaxRequests == 2      \* generate-summary and pdf requests per process life

Chapters == 1..NumChapters
Runs == 1..MaxRuns

\* chapters.status (database.cjs: "pending, processing, completed, error");
\* "none" is a chapter row that has not been inserted yet.
Statuses == {"pending", "processing", "completed", "error"}

\* The writer of a stored result (chapters.detailed_note, lectures.final_summary):
\* nobody (NULL), an earlier process life, run r, or a regenerate task.
NoResult == <<"none", 0>>
OldResult == <<"old", 0>>
RegenResult == <<"regen", 0>>
RunResult(r) == <<"run", r>>

\* let previousContext = "": no chapter's context is carried.
NoContext == [from |-> 0, seen |-> {}]

\* How a run of processLectureBackground was started.
RunKinds == {"create", "retry", "continue"}

VARIABLES
    server,     \* "down" before index.js has been loaded, "up" after app.listen
    dbQueue,    \* statements initDB queued in db.serialize, not yet executed
    lecture,    \* "absent" | "present": the lectures row
    status,     \* status[c]: chapters.status of chapter c
    note,       \* note[c]: who wrote chapters.detailed_note last (NoResult: NULL)
    summary,    \* lectures.final_summary: who stored it last (NoResult: NULL)
    prior,      \* prior[c]: chapters.status as persisted when the process started
    pc,         \* pc[r]: where run r of processLectureBackground stands
    kind,       \* kind[r]: the endpoint that started run r
    idx,        \* idx[r]: the loop variable i (1-based) of run r
    snap,       \* snap[r][c]: dbChapter.status in the rows run r loaded
    failed,     \* failed[r]: some operation awaited by run r has failed
    evs,        \* evs[r]: the error events run r has sent with sendEvent
    outcome,    \* outcome[r]: "none" | "returned" | "rejected" (the promise)
    ctx,        \* ctx[r].from: the chapter previousContext was derived from (0: "");
                \* ctx[r].seen: the chapters run r skipped as completed or completed
    regen,      \* the regenerate tasks: chapters being called, requests so far
    dbFaults,   \* database statements that have rejected so far
    backend,    \* backend[c]: how the LLM backend answers chapter c's deep dive
    recovered,  \* the recovery UPDATE of initDB has been executed
    gw,         \* one call of GeminiProvider.generateContent (the gateway)
    fn,         \* fn.merge: one evaluation of the chapter merge of POST /api/lectures;
                \* fn.correct: one call of correctWithLLM
    http        \* the last responses of generate-summary and pdf, requests so far

vars == <<server, dbQueue, lecture, status, note, summary, prior, pc, kind, idx,
          snap, failed, evs, outcome, ctx, regen, dbFaults, backend, recovered, gw, fn,
          http>>

bootVars == <<server, dbQueue, recovered, prior, backend, gw, fn, http>>
dbVars == <<lecture, status, note, summary>>
runVars == <<pc, kind, idx, snap, failed, evs, outcome, ctx>>

\* ---------------------------------------------------------------- gateway
\* GeminiProvider.generateContent (aiProvider.js).  Texts and error messages
\* are sequences of words; a word is the unit of matching.

DefaultMaxRetries == 3     \* DEFAULT_CONFIG.maxRetries
MaxConfigRetries == 5      \* largest maxRetries a caller passes in its config
BaseDelayMs == 1000
MaxDelayMs == 10000

\* The config a provider is constructed with: <<>> leaves maxRetries to
\* DEFAULT_CONFIG, <<n>> overrides it.
ProviderConfigs == {<<>>} \cup {<<n>> : n \in 0..MaxConfigRetries}

\* this.config = { ...DEFAULT_CONFIG, ...config }
ConfiguredMaxRetries(cfg) == IF cfg = <<>> THEN DefaultMaxRetries ELSE cfg[1]

\* What the backend does with one request: it rejects with an Error that
\* carries a message, or it answers with a text (empty, JSON, fenced JSON, JSON
\* inside prose, truncated JSON, prose).
BackendErrors ==
    { <<"Rate", "Limit", "reached">>,
      <<"read", "ECONNRESET">>,
      <<"API", "key", "not", "valid">> }

BackendTexts ==
    { <<>>,
      <<"{", "kv", "}">>,
      <<"[fence]json", "{", "kv", "}", "[fence]">>,
      <<"Sure:", "{", "kv", "}", "done">>,
      <<"{", "kv">>,
      <<"Request", "timeout">> }

BackendResponses ==
    {[kind |-> "error", message |-> m, text |-> <<>>] : m \in BackendErrors}
        \cup {[kind |-> "text", message |-> <<>>, text |-> t] : t \in BackendTexts}

\* String.prototype.toLowerCase, word by word.
LowerWord(w) ==
    CASE w = "Rate" -> "rate"
      [] w = "Limit" -> "limit"
      [] w = "ECONNRESET" -> "econnreset"
      [] w = "ETIMEDOUT" -> "etimedout"
      [] w = "API" -> "api"
      [] w = "Request" -> "request"
      [] w = "Sure:" -> "sure:"
      [] w = "Failed" -> "failed"
      [] w = "JSON" -> "json"
      [] w = "Unexpected" -> "unexpected"
      [] w = "Empty" -> "empty"
      [] w = "Gemini" -> "gemini"
      [] w = "Max" -> "max"
      [] OTHER -> w

toLowerCase(m) == [i \in 1..Len(m) |-> LowerWord(m[i])]

\* String.prototype.includes
includes(m, p) ==
    \E i \in 0..(Len(m) - Len(p)) : SubSeq(m, i + 1, i + Len(p)) = p

retryablePatterns ==
    { <<"rate", "limit">>, <<"quota", "exceeded">>, <<"timeout">>, <<"network">>,
      <<"ECONNRESET">>, <<"ETIMEDOUT">>, <<"503">>, <<"429">>, <<"overloaded">> }

\* A classification that takes every error for a transient one.
AlwaysRetryable(m) == TRUE

\* isRetryableError(error), on error.message
isRetryableError(m) ==
    \E p \in retryablePatterns : includes(toLowerCase(m), toLowerCase(p))

\* The two replace calls that delete the Markdown code fences (written
\* "[fence]json" and "[fence]" here), and trim.
StripFences(t) == SelectSeq(t, LAMBDA w : w \notin {"[fence]json", "[fence]"})

Positions(t, w) == {i \in 1..Len(t) : t[i] = w}
Least(S) == CHOOSE i \in S : \A j \in S : i <= j
Greatest(S) == CHOOSE i \in S : \A j \in S : j <= i

\* The first '{' to the last '}' when both are there (substring swaps its
\* arguments when the first is the larger).
ExtractObject(t) ==
    LET open == Positions(t, "{")
        close == Positions(t, "}")
    IN  IF open = {} \/ close = {} THEN t
        ELSE IF Least(open) <= Greatest(close)
             THEN SubSeq(t, Least(open), Greatest(close))
             ELSE SubSeq(t, Greatest(close) + 1, Least(open) - 1)

\* JSON.parse accepts the text: an object of members.
IsJSON(t) ==
    /\ Len(t) >= 2
    /\ t[1] = "{"
    /\ t[Len(t)] = "}"
    /\ \A i \in 2..(Len(t) - 1) : t[i] = "kv"

\* e.message of the SyntaxError of JSON.parse: it quotes the text it was given.
JSONParseError(t) ==
    IF t = <<>> \/ (t[1] = "{" /\ \A i \in 2..Len(t) : t[i] = "kv")
    THEN <<"Unexpected", "end", "of", "JSON", "input">>
    ELSE <<"Unexpected", "token">> \o t \o <<"is", "not", "valid", "JSON">>

\* The body of the try of one attempt, from the backend's response on: what it
\* returns, or the message of the error it throws.
Returned(data, raw) == [ok |-> TRUE, data |-> data, raw |-> raw, error |-> <<>>]
Caught(msg) == [ok |-> FALSE, data |-> <<>>, raw |-> <<>>, error |-> msg]

TryBody(resp, schema) ==
    IF resp.kind = "error" THEN Caught(resp.message)
    ELSE IF resp.text = <<>>
         THEN Caught(<<"Empty", "response", "from", "Gemini", "API">>)
    ELSE IF schema
         THEN LET cleanText == ExtractObject(StripFences(resp.text))
              IN  IF IsJSON(cleanText)
                  THEN Returned(cleanText, resp.text)
                  ELSE Caught(<<"Failed", "to", "parse", "JSON", "response:">>
                                  \o JSONParseError(cleanText))
    ELSE Returned(resp.text, resp.text)

\* What the promise of generateContent settles with.
NoOutcome ==
    [settled |-> "pending", success |-> FALSE, data |-> <<>>, rawText |-> <<>>,
     error |-> <<>>, retryCount |-> 0]

Success(data, raw, rc) ==
    [settled |-> "resolved", success |-> TRUE, data |-> data, rawText |-> raw,
     error |-> <<>>, retryCount |-> rc]

\* A failure that is thrown on instead of being returned.
Thrown(msg, rc) ==
    [settled |-> "rejected", success |-> FALSE, data |-> <<>>, rawText |-> <<>>,
     error |-> msg, retryCount |-> rc]

\* return { success: false, data: null, error, retryCount }
Failure(msg, rc) ==
    [settled |-> "resolved", success |-> FALSE, data |-> <<>>, rawText |-> <<>>,
     error |-> msg, retryCount |-> rc]

\* A catch that does not count the attempt.
SameRetryCount(rc) == rc

\* retryCount++
NextRetryCount(rc) == rc + 1

\* A backoff that keeps doubling.
UncappedDelay(rc) == (BaseDelayMs * (2 ^ rc)) \div 2

\* Math.min(1000 * Math.pow(2, retryCount - 1), 10000), in whole milliseconds
BackoffDelay(rc) ==
    LET d == IF rc >= 1 THEN BaseDelayMs * 2 ^ (rc - 1)
                        ELSE BaseDelayMs \div 2 ^ (1 - rc)
    IN  IF d < MaxDelayMs THEN d ELSE MaxDelayMs

\* No call of generateContent yet.  calls counts the requests sent to the
\* backend, retryable the attempts that failed with a retryable error, delays
\* lists the sleeps, lastError is the message of the error caught last.
GwIdle ==
    [pc |-> "idle", maxRetries |-> 0, schema |-> FALSE, retryCount |-> 0,
     calls |-> 0, retryable |-> 0, delays |-> <<>>, lastError |-> <<>>,
     result |-> NoOutcome]

\* ------------------------------------------------------------ chapter merge
\* Step 3 of POST /api/lectures: the chapters the segments proposed, in
\* segment order, are merged into allChapters.  A startTime is the list of the
\* numbers between the colons of the string ("1:30" is <<1, 30>>, "" is <<>>).

MaxProposals == 3          \* proposals in one merge
DuplicateWindowSec == 120

StartTimes ==
    { <<>>, <<0, 0>>, <<1, 30>>, <<1, 59>>, <<2, 0>>, <<2, 1>>, <<0, 3, 31>>, <<45>> }

\* parseTime(timeStr)
parseTime(ts) ==
    IF ts = <<>> THEN 0
    ELSE IF Len(ts) = 3 THEN ts[1] * 3600 + ts[2] * 60 + ts[3]
    ELSE IF Len(ts) = 2 THEN ts[1] * 60 + ts[2]
    ELSE 0

\* A difference taken without Math.abs.
Signed(x) == x

\* Math.abs
Abs(x) == IF x < 0 THEN 0 - x ELSE x

\* allChapters.some(existing => Math.abs(existingStart - chStartSec) < 120)
isDuplicate(allChapters, ch) ==
    \E k \in 1..Len(allChapters) :
        Abs(parseTime(allChapters[k].startTime) - parseTime(ch.startTime))
            < DuplicateWindowSec

\* The two nested loops over segmentResults and result.chapters, from the
\* i-th proposal on.
RECURSIVE MergeFrom(_, _, _, _)
MergeFrom(proposals, hasTimestamps, i, allChapters) ==
    IF i > Len(proposals) THEN allChapters
    ELSE LET ch == [n |-> i, startTime |-> proposals[i]]
         IN  IF hasTimestamps /\ isDuplicate(allChapters, ch)
             THEN MergeFrom(proposals, hasTimestamps, i + 1, allChapters)
             ELSE MergeFrom(proposals, hasTimestamps, i + 1, Append(allChapters, ch))

\* Array.prototype.sort by parseTime(startTime); the sort is stable.
RECURSIVE InsertByStart(_, _)
InsertByStart(sorted, ch) ==
    IF sorted = <<>> THEN <<ch>>
    ELSE IF parseTime(sorted[Len(sorted)].startTime) <= parseTime(ch.startTime)
         THEN Append(sorted, ch)
         ELSE Append(InsertByStart(SubSeq(sorted, 1, Len(sorted) - 1), ch),
                     sorted[Len(sorted)])

RECURSIVE SortByStart(_)
SortByStart(chs) ==
    IF chs = <<>> THEN <<>>
    ELSE InsertByStart(SortByStart(SubSeq(chs, 1, Len(chs) - 1)), chs[Len(chs)])

\* A merge that de-duplicates and sorts whether or not there are timestamps.
MergeAsTimed(proposals, hasTimestamps) ==
    SortByStart(MergeFrom(proposals, TRUE, 1, <<>>))

\* Step 3 as a whole.
MergeChapters(proposals, hasTimestamps) ==
    LET merged == MergeFrom(proposals, hasTimestamps, 1, <<>>)
    IN  IF hasTimestamps THEN SortByStart(merged) ELSE merged

MergeIdle == [pc |-> "idle", proposals |-> <<>>, ends |-> <<>>,
              hasTimestamps |-> FALSE,
              allChapters |-> <<>>]

\* ---------------------------------------------------------------- corrector
\* correctWithLLM (llmCorrector.js).  A text is the sequence of its characters.

MaxSegmentChars == 3       \* longest segment given to correctWithLLM
MaxCorrections == 2        \* entries in the corrections list of a response
DefaultMaxSegmentLength == 2500
SmallMaxSegmentLength == 2 \* a maxSegmentLength that truncates the segments here

SegmentTexts == UNION {[1..n -> {"a", "b", " "}] : n \in 0..MaxSegmentChars}

\* The config given to correctWithLLM, over DEFAULT_CONFIG.
CorrectionConfigs ==
    [enabled : BOOLEAN,
     maxSegmentLength : {SmallMaxSegmentLength, DefaultMaxSegmentLength}]

\* The original and corrected strings of the entries a response carries.
Phrases == {<<>>, <<"a">>, <<"b">>, <<"a", "b">>}
Replacements == {<<"b">>, <<"a", "b">>}
CorrectionEntries == [original : Phrases, corrected : Replacements]
CorrectionLists == UNION {[1..n -> CorrectionEntries] : n \in 0..MaxCorrections}

\* What aiProvider.generateContent settles with: a result with success true
\* and data.corrections, a result with success false, or a rejection.
CorrectorResponses ==
    {[kind |-> "ok", corrections |-> l, error |-> "undefined"] : l \in CorrectionLists}
        \cup {[kind |-> "failed", corrections |-> <<>>, error |-> "API error"],
              [kind |-> "threw", corrections |-> <<>>, error |-> "Network error"]}

\* The characters String.prototype.trim and \s take for white space, of those
\* the texts here are made of (U+FEFF is one).
WhiteSpace == {" ", "\t", "\n", "\r", "U+FEFF"}

\* String.prototype.trim
RECURSIVE TrimStart(_)
TrimStart(t) ==
    IF t # <<>> /\ Head(t) \in WhiteSpace THEN TrimStart(Tail(t)) ELSE t

RECURSIVE TrimEnd(_)
TrimEnd(t) ==
    IF t # <<>> /\ t[Len(t)] \in WhiteSpace
    THEN TrimEnd(SubSeq(t, 1, Len(t) - 1))
    ELSE t

trim(t) == TrimEnd(TrimStart(t))

\* String.prototype.substring(from) and substring(0, to)
SubstringFrom(t, from) == SubSeq(t, from + 1, Len(t))
SubstringTo(t, to) == SubSeq(t, 1, IF to < Len(t) THEN to ELSE Len(t))

\* String.prototype.replace(pattern, replacement) with a string pattern that
\* occurs in t: the first occurrence is replaced.
replace(t, pattern, replacement) ==
    LET at == Least({i \in 0..(Len(t) - Len(pattern)) :
                        SubSeq(t, i + 1, i + Len(pattern)) = pattern})
    IN  SubSeq(t, 1, at) \o replacement \o SubstringFrom(t, at + Len(pattern))

\* The loop over correctionsList from entry k on: finalText and
\* validCorrections.  An entry with an empty original or corrected is passed
\* over; one whose original finalText includes is applied and kept.
RECURSIVE ApplyCorrections(_, _, _, _)
ApplyCorrections(list, k, finalText, validCorrections) ==
    IF k > Len(list)
    THEN [finalText |-> finalText, validCorrections |-> validCorrections]
    ELSE LET correction == list[k]
         IN  IF /\ correction.original # <<>>
                /\ correction.corrected # <<>>
                /\ includes(finalText, correction.original)
             THEN ApplyCorrections(list, k + 1,
                      replace(finalText, correction.original, correction.corrected),
                      Append(validCorrections, correction))
             ELSE ApplyCorrections(list, k + 1, finalText, validCorrections)

\* segment.substring(0, cfg.maxSegmentLength) when the segment is longer
textToProcess(segment, cfg) ==
    IF Len(segment) > cfg.maxSegmentLength
    THEN SubstringTo(segment, cfg.maxSegmentLength)
    ELSE segment

\* The result for a disabled correction.
SkippedResult(segment) ==
    [originalText |-> segment, correctedText |-> segment, corrections |-> <<>>,
     success |-> TRUE, skipped |-> "true", error |-> "undefined"]

\* The result for an empty or whitespace-only segment.
EmptyResult(segment) ==
    [originalText |-> segment, correctedText |-> segment, corrections |-> <<>>,
     success |-> TRUE, skipped |-> "undefined", error |-> "undefined"]

\* A failure result that hands back the truncated text.
TruncatedOnFailure(segment, processed, error) ==
    [originalText |-> segment, correctedText |-> processed, corrections |-> <<>>,
     success |-> FALSE, skipped |-> "undefined", error |-> error]

\* The result when the gateway's result has success false, and the one of the
\* catch.
FailureResult(segment, processed, error) ==
    [originalText |-> segment, correctedText |-> segment, corrections |-> <<>>,
     success |-> FALSE, skipped |-> "undefined", error |-> error]

\* The result after the corrections were applied; the part cut off before the
\* call is appended again.
CorrectedResult(segment, cfg, list) ==
    LET applied == ApplyCorrections(list, 1, textToProcess(segment, cfg), <<>>)
        rest == IF Len(segment) > cfg.maxSegmentLength
                THEN SubstringFrom(segment, cfg.maxSegmentLength)
                ELSE <<>>
    IN  [originalText |-> segment, correctedText |-> applied.finalText \o rest,
         corrections |-> applied.validCorrections,
         success |-> TRUE, skipped |-> "undefined", error |-> "undefined"]

NoCorrection ==
    [originalText |-> <<>>, correctedText |-> <<>>, corrections |-> <<>>,
     success |-> FALSE, skipped |-> "undefined", error |-> "undefined"]

\* No call of correctWithLLM yet.  calls counts the calls of
\* aiProvider.generateContent, response is what the last one settled with.
CorrectIdle ==
    [pc |-> "idle", segment |-> <<>>,
     cfg |-> [enabled |-> TRUE, maxSegmentLength |-> DefaultMaxSegmentLength],
     calls |-> 0,
     response |-> [kind |-> "none", corrections |-> <<>>, error |-> "undefined"],
     result |-> NoCorrection]

\* --------------------------------------------------------------- segmenter
\* splitIntoSegments(transcript, segmentMinutes).  A transcript is the list of
\* its lines (transcript.split('\n'), never empty); a line is the timestamp
\* timePattern finds in it (the numbers between its colons, <<>> when the
\* pattern does not match) and what else it holds ("" for nothing but
\* whitespace).  Line indexes count from 0 as in the source.

MaxLines == 4              \* lines of a transcript
ContextLines == 2
BufferSeconds == 60
DefaultSegmentMinutes == 30

SegmentMinutes == {1, DefaultSegmentMinutes}

Stamps == { <<0, 0>>, <<0, 10>>, <<31, 0>>, <<1, 2, 0>> }

TranscriptLines ==
    {[stamp |-> <<>>, text |-> ""], [stamp |-> <<>>, text |-> "x"]}
    \cup {[stamp |-> t, text |-> "x"] : t \in Stamps}

Transcripts == UNION {[1..n -> TranscriptLines] : n \in 1..MaxLines}

\* Math.max, Math.min, Math.ceil(a / b)
Max(a, b) == IF a >= b THEN a ELSE b
Min(a, b) == IF a <= b THEN a ELSE b
Ceil(a, b) == (a + b - 1) \div b

\* timestamps: {lineIndex, time} of every line timePattern matches, in order
Timestamps(lines) ==
    LET at == SelectSeq([i \in 1..Len(lines) |-> i],
                        LAMBDA i : lines[i].stamp # <<>>)
    IN  [k \in 1..Len(at) |->
            [lineIndex |-> at[k] - 1, time |-> parseTime(lines[at[k]].stamp)]]

\* lastTime
RECURSIVE LastTimeFrom(_, _, _)
LastTimeFrom(ts, k, lastTime) ==
    IF k > Len(ts) THEN lastTime
    ELSE LastTimeFrom(ts, k + 1, Max(lastTime, ts[k].time))

LastTime(ts) == LastTimeFrom(ts, 1, 0)

\* for (const ts of timestamps): startLineIdx is set while it is still 0,
\* endLineIdx at the first timestamp past segEndSec, where the loop breaks.
RECURSIVE ScanTimestamps(_, _, _, _, _, _)
ScanTimestamps(ts, k, segStartSec, segEndSec, startLineIdx, endLineIdx) ==
    IF k > Len(ts)
    THEN [startLineIdx |-> startLineIdx, endLineIdx |-> endLineIdx]
    ELSE LET start == IF ts[k].time >= segStartSec /\ startLineIdx = 0
                      THEN Max(0, ts[k].lineIndex - ContextLines)
                      ELSE startLineIdx
         IN  IF ts[k].time > segEndSec
             THEN [startLineIdx |-> start, endLineIdx |-> ts[k].lineIndex]
             ELSE ScanTimestamps(ts, k + 1, segStartSec, segEndSec,
                                 start, endLineIdx)

\* One pass of the segment loop; the text is lines.slice(startLineIdx,
\* endLineIdx + 1), kept here as the two indexes.
SegmentAt(lines, ts, seg, segmentSeconds, totalDuration) ==
    LET segStartSec == seg * segmentSeconds
        segEndSec == Min((seg + 1) * segmentSeconds,
                         totalDuration + BufferSeconds)
        range == ScanTimestamps(ts, 1, segStartSec, segEndSec,
                                0, Len(lines) - 1)
    IN  [segmentIndex |-> seg, startSeconds |-> segStartSec,
         endSeconds |-> segEndSec,
         startLineIdx |-> range.startLineIdx,
         endLineIdx |-> range.endLineIdx]

\* segmentText.trim().length > 0
HasText(lines, s) ==
    \E i \in s.startLineIdx..s.endLineIdx :
        /\ i \in 0..(Len(lines) - 1)
        /\ \/ lines[i + 1].stamp # <<>>
           \/ lines[i + 1].text # ""

\* splitByCharCount(transcript, charsPerSegment), for a transcript without
\* timestamps.  A text is the list of its characters; a line with text is the
\* one character "x".
MaxPlainLines == 7         \* lines of a transcript without timestamps
DefaultCharsPerSegment == 10000

CharBudgets == {1, 3, 4, DefaultCharsPerSegment}

PlainTranscripts ==
    UNION {[1..n -> {[stamp |-> <<>>, text |-> ""], [stamp |-> <<>>, text |-> "x"]}] :
              n \in 1..MaxPlainLines}

\* Array.prototype.join
RECURSIVE Join(_, _)
Join(parts, sep) ==
    IF parts = <<>> THEN <<>>
    ELSE IF Len(parts) = 1 THEN parts[1]
    ELSE parts[1] \o sep \o Join(Tail(parts), sep)

\* The transcript as one string.
Text(lines) ==
    Join([i \in 1..Len(lines) |->
             IF lines[i].text = "" THEN <<>> ELSE <<lines[i].text>>], <<"\n">>)

\* transcript.split(/\n\s*\n/): the transcript cut at the blank lines that
\* follow a line with text; cur is the run of lines being read.  Blank lines
\* at either end of a run stay in it, for trim to remove.
RECURSIVE Paragraphs(_, _, _)
Paragraphs(lines, k, cur) ==
    IF k > Len(lines) THEN <<Text(cur)>>
    ELSE IF lines[k].text = "" /\ cur # <<>> /\ k < Len(lines)
    THEN <<Text(cur)>> \o Paragraphs(lines, k + 1, <<>>)
    ELSE Paragraphs(lines, k + 1, Append(cur, lines[k]))

\* currentText.length + trimmedPara.length, without the 2 of the separator
PackedLengthNoSeparator(currentText, trimmedPara) ==
    Len(currentText) + Len(trimmedPara)

\* currentText.length + trimmedPara.length + 2
PackedLength(currentText, trimmedPara) ==
    Len(currentText) + Len(trimmedPara) + 2

\* for (const para of paragraphs), then the push of the last segment
RECURSIVE PackFrom(_, _, _, _, _)
PackFrom(paragraphs, k, currentText, texts, charsPerSegment) ==
    IF k > Len(paragraphs)
    THEN IF trim(currentText) # <<>> THEN Append(texts, trim(currentText))
         ELSE texts
    ELSE LET trimmedPara == trim(paragraphs[k])
             full == /\ Len(currentText) > 0
                     /\ PackedLength(currentText, trimmedPara) > charsPerSegment
             kept == IF full THEN <<>> ELSE currentText
         IN  IF trimmedPara = <<>>
             THEN PackFrom(paragraphs, k + 1, currentText, texts, charsPerSegment)
             ELSE PackFrom(paragraphs, k + 1,
                           kept \o (IF kept # <<>> THEN <<"\n", "\n">> ELSE <<>>)
                                \o trimmedPara,
                           IF full THEN Append(texts, trim(currentText))
                           ELSE texts,
                           charsPerSegment)

splitByCharCount(lines, charsPerSegment) ==
    LET texts == PackFrom(Paragraphs(lines, 1, <<>>), 1, <<>>, <<>>,
                          charsPerSegment)
    IN  IF texts = <<>>
        THEN << [segmentIndex |-> 0, startSeconds |-> 0, endSeconds |-> 0,
                 text |-> Text(lines)] >>
        ELSE [n \in 1..Len(texts) |->
                 [segmentIndex |-> n - 1, startSeconds |-> 0, endSeconds |-> 0,
                  text |-> texts[n]]]

\* The segments pushed, in order.  Without any timestamp the transcript goes
\* to splitByCharCount instead (byCharCount).
splitIntoSegments(lines, segmentMinutes, charsPerSegment) ==
    LET segmentSeconds == segmentMinutes * 60
        ts == Timestamps(lines)
        totalDuration == LastTime(ts)
        numSegments == Ceil(totalDuration, segmentSeconds)
        all == [n \in 1..numSegments |->
                   SegmentAt(lines, ts, n - 1, segmentSeconds, totalDuration)]
    IN  IF ts = <<>>
        THEN [byCharCount |-> TRUE,
              segments |-> splitByCharCount(lines, charsPerSegment)]
        ELSE [byCharCount |-> FALSE,
              segments |-> SelectSeq(all, LAMBDA s : HasText(lines, s))]

\* No call of splitIntoSegments yet.
SegmenterIdle ==
    [pc |-> "idle", lines |-> <<>>, segmentMinutes |-> DefaultSegmentMinutes,
     charsPerSegment |-> DefaultCharsPerSegment,
     byCharCount |-> FALSE, segments |-> <<>>]

\* --------------------------------------------------------------- normalizer
\* normalizeText(text, config) of textNormalizer.js.  A text is the list of its
\* characters; "U+0001" is a control character, "U+0301" the combining acute
\* accent, "U+00E9" the letter e with acute, and a placeholder of
\* protectTimestamps is kept as one character.

MaxPieces == 3             \* pieces an input text is put together from
DefaultMaxBlankLines == 2

Placeholders ==
    <<"__TIMESTAMP_0__", "__TIMESTAMP_1__", "__TIMESTAMP_2__", "__TIMESTAMP_3__">>

TextPieces ==
    { <<"1", ":", "0", "0">>, <<"[", "1", ":", "0", "0", ":", "0", "0", "]">>,
      <<" ">>, <<"\n">>, <<"\n", "\n", "\n">>, <<"\r">>, <<"U+FEFF">>,
      <<"U+0001">>, <<"U+FFFD">>, <<"e">>, <<"U+0301">>, <<"__TIMESTAMP_0__">> }

RawTexts ==
    {Join(ps, <<>>) : ps \in UNION {[1..n -> TextPieces] : n \in 0..MaxPieces}}

\* DEFAULT_CONFIG
DefaultNormalizerConfig ==
    [preserveTimestamps |-> TRUE, normalizeWhitespace |-> TRUE,
     removeControlChars |-> TRUE, removeBOM |-> TRUE,
     handleReplacementChar |-> TRUE, trimLines |-> TRUE,
     collapseBlankLines |-> TRUE, maxBlankLines |-> DefaultMaxBlankLines]

\* The configs given: the default, and the default with one option changed.
NormalizerConfigs ==
    { DefaultNormalizerConfig,
      [DefaultNormalizerConfig EXCEPT !.preserveTimestamps = FALSE],
      [DefaultNormalizerConfig EXCEPT !.trimLines = FALSE],
      [DefaultNormalizerConfig EXCEPT !.maxBlankLines = 0] }

\* The length of the match of /\[?\d{1,2}:\d{2}(?::\d{2})?\]?/ that starts at
\* character i of t, 0 when there is none.
TimestampAt(t, i) ==
    LET At(j) == IF j <= Len(t) THEN t[j] ELSE ""
        Digit(j) == At(j) \in {"0", "1"}
        open == IF At(i) = "[" THEN 1 ELSE 0
        j == i + open
        hours == IF Digit(j) /\ Digit(j + 1) /\ At(j + 2) = ":"
                    /\ Digit(j + 3) /\ Digit(j + 4)
                 THEN 2
                 ELSE IF Digit(j) /\ At(j + 1) = ":" /\ Digit(j + 2) /\ Digit(j + 3)
                 THEN 1
                 ELSE 0
        k == j + hours + 3
        seconds == IF At(k) = ":" /\ Digit(k + 1) /\ Digit(k + 2) THEN 3 ELSE 0
        close == IF At(k + seconds) = "]" THEN 1 ELSE 0
    IN  IF hours = 0 THEN 0 ELSE open + hours + 3 + seconds + close

\* protectTimestamps: the text with a placeholder for every match, and the
\* matches in the order of their placeholders.
protectTimestamps(t) ==
    LET RECURSIVE From(_, _, _)
        From(i, text, map) ==
            IF i > Len(t) THEN [text |-> text, map |-> map]
            ELSE IF TimestampAt(t, i) > 0
            THEN From(i + TimestampAt(t, i),
                      Append(text, Placeholders[Len(map) + 1]),
                      Append(map, SubSeq(t, i, i + TimestampAt(t, i) - 1)))
            ELSE From(i + 1, Append(text, t[i]), map)
    IN  From(1, <<>>, <<>>)

\* restoreTimestamps with the replace left out.
forgetTimestamps(t, map) == t

\* restoreTimestamps: result.replace(placeholder, original) for every entry of
\* the map, which replaces the first occurrence.
restoreTimestamps(t, map) ==
    LET RECURSIVE From(_, _)
        From(text, n) ==
            IF n > Len(map) THEN text
            ELSE LET at == {i \in 1..Len(text) : text[i] = Placeholders[n]}
                     first == CHOOSE i \in at : \A j \in at : i <= j
                 IN  IF at = {} THEN From(text, n + 1)
                     ELSE From(SubSeq(text, 1, first - 1) \o map[n]
                                  \o SubSeq(text, first + 1, Len(text)), n + 1)
    IN  From(t, 1)

\* normalizeText(text, config).text, with the functions it calls
normalizeText(text, cfg) ==
    LET
        \* text.replace(pattern, f) for a pattern that matches one character at a time
        MapChars(t, f(_)) ==
            LET RECURSIVE From(_)
                From(i) == IF i > Len(t) THEN <<>> ELSE f(t[i]) \o From(i + 1)
            IN  From(1)

        \* Every run of characters of cs, cut down by shorten(run length)
        SquashRuns(t, cs, shorten(_)) ==
            LET RECURSIVE RunEnd(_)
                RunEnd(i) == IF i <= Len(t) /\ t[i] \in cs THEN RunEnd(i + 1) ELSE i
                RECURSIVE From(_)
                From(i) ==
                    IF i > Len(t) THEN <<>>
                    ELSE IF t[i] \in cs
                    THEN [k \in 1..shorten(RunEnd(i) - i) |-> t[i]] \o From(RunEnd(i))
                    ELSE <<t[i]>> \o From(i + 1)
            IN  From(1)

        \* text.replace(/\r\n/g, '\n').replace(/\r/g, '\n')
        normalizeLineEndings(t) ==
            LET RECURSIVE From(_)
                From(i) ==
                    IF i > Len(t) THEN <<>>
                    ELSE IF t[i] = "\r" /\ i < Len(t) /\ t[i + 1] = "\n"
                    THEN <<"\n">> \o From(i + 2)
                    ELSE <<t[i]>> \o From(i + 1)
                Cr(c) == IF c = "\r" THEN <<"\n">> ELSE <<c>>
            IN  MapChars(From(1), Cr)

        \* /^\uFEFF/
        removeBOM(t) == IF t # <<>> /\ Head(t) = "U+FEFF" THEN Tail(t) ELSE t

        \* text.normalize('NFC'): e followed by the combining acute is one letter.
        normalizeUTF8NFC(t) ==
            LET RECURSIVE From(_)
                From(i) ==
                    IF i > Len(t) THEN <<>>
                    ELSE IF t[i] = "e" /\ i < Len(t) /\ t[i + 1] = "U+0301"
                    THEN <<"U+00E9">> \o From(i + 2)
                    ELSE <<t[i]>> \o From(i + 1)
            IN  From(1)

        \* /[\x00-\x08\x0B\x0C\x0E-\x1F]/g
        removeControlCharacters(t) ==
            LET Drop(c) == IF c = "U+0001" THEN <<>> ELSE <<c>>
            IN  MapChars(t, Drop)

        \* /\uFFFD/g
        handleReplacementCharacter(t) ==
            LET Drop(c) == IF c = "U+FFFD" THEN <<>> ELSE <<c>>
            IN  MapChars(t, Drop)

        \* /[^\S\n]+/g to ' '
        normalizeWhitespace(t) ==
            LET One(n) == 1
                Space(c) == IF c \in WhiteSpace \ {"\n"} THEN <<" ">> ELSE <<c>>
            IN  MapChars(SquashRuns(t, WhiteSpace \ {"\n"}, One), Space)

        \* text.split('\n').map(line => line.trim()).join('\n')
        trimLines(t) ==
            LET RECURSIVE LineEnd(_)
                LineEnd(i) == IF i <= Len(t) /\ t[i] # "\n" THEN LineEnd(i + 1) ELSE i
                RECURSIVE From(_)
                From(i) ==
                    LET line == trim(SubSeq(t, i, LineEnd(i) - 1))
                    IN  IF LineEnd(i) > Len(t) THEN line
                        ELSE line \o <<"\n">> \o From(LineEnd(i) + 1)
            IN  From(1)

        \* collapseBlankLines: runs of more than maxBlankLines + 1 newlines
        collapseBlankLines(t, maxBlankLines) ==
            LET Most(n) == IF n > maxBlankLines + 1 THEN maxBlankLines + 1 ELSE n
            IN  SquashRuns(t, {"\n"}, Most)

        \* "if (cfg.option) { result = step(result) }"
        When(option, step(_), t) == IF option THEN step(t) ELSE t
        Collapse(t) == collapseBlankLines(t, cfg.maxBlankLines)
        Protect(t) == IF cfg.preserveTimestamps THEN protectTimestamps(t)
                      ELSE [text |-> t, map |-> <<>>]
        Restore(t, protected) ==
            IF cfg.preserveTimestamps THEN restoreTimestamps(t, protected.map)
            ELSE t
        Cleaned(t) ==
            When(cfg.collapseBlankLines, Collapse,
              When(cfg.trimLines, trimLines,
                When(cfg.normalizeWhitespace, normalizeWhitespace,
                  When(cfg.handleReplacementChar, handleReplacementCharacter,
                    When(cfg.removeControlChars, removeControlCharacters,
                      normalizeUTF8NFC(t))))))
        Protected(protected) == Restore(Cleaned(protected.text), protected)
        s10 == Protected(Protect(When(cfg.removeBOM, removeBOM,
                                      normalizeLineEndings(text))))
    IN  IF text = <<>> THEN <<>> ELSE trim(s10)

\* No call of normalizeText yet.
NormalizerIdle ==
    [pc |-> "idle", input |-> <<>>, cfg |-> DefaultNormalizerConfig,
     text |-> <<>>, again |-> <<>>]

\* ----------------------------------------------------------- slice extractor
\* extractSlice(text, startStr, endStr).  The text is a list of lines as in the
\* segmenter; the slice returned is lines.slice(first, last + 1), kept as the
\* indexes of its first and last line (last < first for an empty slice).
DegenerateWindowLines == 100

SliceTimes ==
    { <<>>, <<0, 5>>, <<0, 10>>, <<5, 0>>, <<20, 0>>, <<31, 0>>, <<40, 0>> }

SliceTranscripts ==
    UNION {[1..n -> {[stamp |-> <<>>, text |-> "x"],
                     [stamp |-> <<0, 10>>, text |-> "x"],
                     [stamp |-> <<31, 0>>, text |-> "x"]}] : n \in 1..MaxLines}

\* The last line index of a slice that ends where it is told to.
SliceEnd(startLineIndex, endLineIndex) == endLineIndex

\* The last line index of lines.slice(startLineIndex, startLineIndex + 100)
WindowEnd(startLineIndex, endLineIndex) ==
    startLineIndex + DegenerateWindowLines - 1

extractSlice(lines, startStr, endStr) ==
    LET startSec == parseTime(startStr)
        endSec == parseTime(endStr)
        timestamps == Timestamps(lines)
        before == SelectSeq(timestamps, LAMBDA t : t.time <= startSec)
        after == SelectSeq(timestamps, LAMBDA t : t.time >= endSec)
        startLineIndex ==
            IF before # <<>>
            THEN Max(0, before[Len(before)].lineIndex - ContextLines)
            ELSE 0
        endLineIndex ==
            IF endSec > 0 /\ after # <<>> THEN after[1].lineIndex
            ELSE Len(lines) - 1
    IN  IF timestamps = <<>>
        THEN [first |-> 0, last |-> Len(lines) - 1]
        ELSE IF startLineIndex > endLineIndex
        THEN [first |-> startLineIndex,
              last |-> Min(WindowEnd(startLineIndex, endLineIndex),
                           Len(lines) - 1)]
        ELSE [first |-> startLineIndex, last |-> endLineIndex]

\* No call of extractSlice yet.
SliceIdle ==
    [pc |-> "idle", lines |-> <<>>, startStr |-> <<>>, endStr |-> <<>>,
     first |-> 0, last |-> 0]

\* ---------------------------------------------------------- lecture creation
\* POST /api/lectures: the segments' chapter proposals are requested in
\* batches, merged, and the lecture and its chapters are inserted.

MaxSegments == 4           \* segments of one transcript
BatchSize == 3             \* BATCH_SIZE
DefaultBatchSize == 8      \* DEFAULT_CONFIG.batchSize of the corrector
MaxCorrectionChunks == 9   \* chunks preprocessTranscript gives the corrector

\* segments.slice(i, i + batchSize), as the indexes of its elements
Batch(i, batchSize, n) == i..(Min(i + batchSize, n) - 1)

\* A wait that ends as soon as one promise of the batch has settled.
AnySettled(pending) == TRUE

\* await Promise.all(...) over promises that never reject: it resolves when
\* no call of the batch is in flight any more.
AllSettled(pending) == pending = {}

\* What the backend gives for one segment's proposal call: an error (or a text
\* that does not parse), or the chapters proposed, each with its startTime.
SegmentAnswers ==
    {[ok |-> FALSE, chapters |-> <<>>]} \cup
    {[ok |-> TRUE, chapters |-> cs] : cs \in {<<>>, << <<0, 0>> >>, << <<2, 0>> >>}}

\* A catch in processSegment that throws the error on.
SegmentRethrow == [chapters |-> <<>>, thrown |-> TRUE]

\* processSegment's catch: the error is logged, the segment has no chapters.
SegmentCatch == [chapters |-> <<>>, thrown |-> FALSE]

\* processSegment(segment, idx): a response without text gives no chapters,
\* else result.chapters || []; every error ends in the catch.
processSegment(answer) ==
    IF answer.ok THEN [chapters |-> answer.chapters, thrown |-> FALSE]
    ELSE SegmentCatch

\* No POST /api/lectures and no DELETE /api/lectures/:id received yet.
CreateIdle ==
    [pc |-> "idle", chunks |-> 0, n |-> 0, hasTimestamps |-> FALSE, i |-> 0,
     pending |-> {},
     results |-> [k \in 0..(MaxSegments - 1) |->
                    [done |-> FALSE, failed |-> FALSE, chapters |-> <<>>]],
     allChapters |-> <<>>, inserted |-> 0, del |-> "idle"]

\* -------------------------------------------------------- correction chunks
\* preprocessTranscript, the loop that cuts the normalized transcript into the
\* segments given to correctSegmentsBatch.

MaxChunkText == 6          \* characters of a transcript given to the loop
SegmentSize == 4           \* segmentSize, 2000 in the source
MaxChunks == 4             \* iterations followed

ChunkTexts ==
    UNION {[1..n -> {".", " ", "\n", "a"}] : n \in 0..MaxChunkText}

\* The break point of one iteration, for a remaining text longer than
\* segmentSize.  Indexes count from 0 as in the source.
breakPoint(remaining, segmentSize) ==
    LET \* remaining.lastIndexOf(sep, segmentSize)
        lastIndexOf(sep) ==
            LET at == {i \in 0..Min(segmentSize, Len(remaining) - Len(sep)) :
                          SubSeq(remaining, i + 1, i + Len(sep)) = sep}
            IN  IF at = {} THEN 0 - 1
                ELSE CHOOSE i \in at : \A j \in at : j <= i
        paragraph == lastIndexOf(<<"\n", "\n">>)
        line == IF 2 * paragraph < segmentSize THEN lastIndexOf(<<"\n">>)
                ELSE paragraph
        sentence == IF 2 * line < segmentSize THEN lastIndexOf(<<".", " ">>)
                    ELSE line
    IN  IF sentence < 0 \/ sentence > segmentSize THEN segmentSize ELSE sentence

ChunkIdle ==
    [pc |-> "idle", remaining |-> <<>>, segments |-> <<>>,
     normalized |-> <<>>, processedText |-> <<>>, applied |-> 0]

\* Nothing evaluated yet.
FnIdle ==
    [merge |-> MergeIdle, correct |-> CorrectIdle, segmenter |-> SegmenterIdle,
     slice |-> SliceIdle, normalizer |-> NormalizerIdle, create |-> CreateIdle,
     chunker |-> ChunkIdle]

\* ------------------------------------------------------------ persistence

\* What a process finds in lecture_notes.db when it starts: either no lecture
\* yet, or a lecture whose chapters an earlier process life left in any status
\* (a chapter is "processing" when that process died during its call).  The
\* completed chapters have their detailed_note.
PersistedStore ==
    \/ /\ lecture = "absent"
       /\ status = [c \in Chapters |-> "none"]
       /\ note = [c \in Chapters |-> NoResult]
    \/ /\ lecture = "present"
       /\ status \in [Chapters -> Statuses]
       /\ note = [c \in Chapters |->
                    IF status[c] = "completed" THEN OldResult ELSE NoResult]

\* initDB without the recovery statement (as database.cjs was before the
\* recovery was added).
initDBSchemaOnly == <<"schema">>

\* The statements initDB queues inside db.serialize, in order: the schema
\* statements (CREATE TABLE IF NOT EXISTS, ALTER TABLE ADD COLUMN), then the
\* recovery UPDATE.
initDB == <<"schema", "recover">>

\* A recovery that resets every chapter that is not completed.
RecoverUnfinished(st) ==
    [c \in Chapters |-> IF st[c] = "completed" THEN st[c] ELSE "pending"]

\* UPDATE chapters SET status = 'pending' WHERE status = 'processing'
RecoverStuck(st) ==
    [c \in Chapters |-> IF st[c] = "processing" THEN "pending" ELSE st[c]]

\* sqlite3 runs the statements queued in db.serialize one at a time and in
\* order, and holds back every statement submitted after them until they are
\* done: a handler's statement executes only once initDB's queue is empty.
dbReady == server = "up" /\ dbQueue = <<>>

\* A database statement may reject (run/get/all reject with the driver's err).
DbMayFail == dbFaults < MaxDbFaults

InitStore ==
    /\ server = "down"
    /\ dbQueue = <<>>
    /\ recovered = FALSE
    /\ PersistedStore
    /\ summary = NoResult
    /\ prior = status
    /\ pc = [r \in Runs |-> "idle"]
    /\ kind = [r \in Runs |-> "none"]
    /\ idx = [r \in Runs |-> 1]
    /\ snap = [r \in Runs |-> [c \in Chapters |-> "none"]]
    /\ failed = [r \in Runs |-> FALSE]
    /\ evs = [r \in Runs |-> {}]
    /\ outcome = [r \in Runs |-> "none"]
    /\ ctx = [r \in Runs |-> NoContext]
    /\ regen = [calling |-> {}, started |-> 0]
    /\ dbFaults = 0
    /\ gw = GwIdle
    /\ fn = FnIdle
    /\ http = [summary |-> "none", pdf |-> "none", n |-> 0]

\* How the LLM backend answers the deep-dive call of a chapter: always with a
\* usable result, never with one, or either way from call to call.
BackendModes == {"ok", "fail", "any"}

Init ==
    /\ InitStore
    /\ backend = [c \in Chapters |-> "any"]

InitRun ==
    /\ InitStore
    /\ backend \in [Chapters -> BackendModes]
    /\ \/ \A c \in Chapters : backend[c] = "any"
       \/ \A c \in Chapters : backend[c] # "any"

\* ---------------------------------------------------------------- startup

\* index.js top level: initDB() is called (its statements are queued; the
\* promise is not awaited) and app.listen starts accepting requests.
StartServer ==
    /\ server = "down"
    /\ server' = "up"
    /\ dbQueue' = initDB
    /\ UNCHANGED <<recovered, prior, backend, gw, fn, http, dbVars, runVars, regen, dbFaults>>

\* sqlite3 executes the next statement initDB queued.
DbInitStep ==
    /\ server = "up"
    /\ dbQueue # <<>>
    /\ dbQueue' = Tail(dbQueue)
    /\ IF Head(dbQueue) = "recover"
         THEN /\ status' = RecoverStuck(status)
              /\ recovered' = TRUE
         ELSE UNCHANGED <<status, recovered>>
    /\ UNCHANGED <<server, prior, backend, gw, fn, http, lecture, note, summary, runVars,
                   regen, dbFaults>>


\* ----------------------------------------------------------- orchestrator

\* Runs are taken in order: run r starts only when run r-1 has started.
CanStart(r) ==
    /\ server = "up"
    /\ pc[r] = "idle"
    /\ \A q \in Runs : q < r => pc[q] # "idle"

\* A call of processLectureBackground: it runs up to its first await, the
\* SELECT of the lecture row.
Started(r, k) ==
    /\ pc' = [pc EXCEPT ![r] = "load"]
    /\ kind' = [kind EXCEPT ![r] = k]
    /\ UNCHANGED <<idx, snap, failed, evs, outcome, ctx>>

\* POST /api/lectures, from "Step 5" on: INSERT the lecture row and one chapter
\* row per merged chapter with status 'pending', respond, then start the
\* background run.  generateId gives every request its own lecture id, so the
\* one lecture modelled here is created at most once.
CreateLecture(r) ==
    /\ CanStart(r)
    /\ dbReady
    /\ lecture = "absent"
    /\ lecture' = "present"
    /\ status' = [c \in Chapters |-> "pending"]
    /\ Started(r, "create")
    /\ UNCHANGED <<bootVars, note, summary, regen, dbFaults>>

\* POST /api/lectures/:id/retry: starts a run, whatever the chapters' status.
Retry(r) ==
    /\ CanStart(r)
    /\ Started(r, "retry")
    /\ UNCHANGED <<bootVars, dbVars, regen, dbFaults>>

\* POST /api/lectures/:id/continue-processing: starts a run when some chapter
\* row has status != 'completed' (400 otherwise).
ContinueProcessing(r) ==
    /\ CanStart(r)
    /\ dbReady
    /\ \E c \in Chapters : status[c] \notin {"none", "completed"}
    /\ Started(r, "continue")
    /\ UNCHANGED <<bootVars, dbVars, regen, dbFaults>>

\* processLectureBackground is left: its locals are gone, its promise settles.
Left(r, how) ==
    /\ pc' = [pc EXCEPT ![r] = "done"]
    /\ outcome' = [outcome EXCEPT ![r] = how]
    /\ kind' = [kind EXCEPT ![r] = "none"]
    /\ idx' = [idx EXCEPT ![r] = 1]
    /\ snap' = [snap EXCEPT ![r] = [c \in Chapters |-> "none"]]
    /\ ctx' = [ctx EXCEPT ![r] = NoContext]

\* An outer catch that throws the error on: the promise rejects.
OuterRethrow(r) ==
    /\ Left(r, "rejected")
    /\ failed' = [failed EXCEPT ![r] = TRUE]
    /\ UNCHANGED evs

\* The catch of processLectureBackground's outer try: the error is logged and
\* sent as an 'error' event, and the function returns.
OuterCatch(r) ==
    /\ Left(r, "returned")
    /\ evs' = [evs EXCEPT ![r] = @ \cup {"error"}]
    /\ failed' = [failed EXCEPT ![r] = TRUE]

\* The for loop's "if (dbChapter.status === 'completed') continue": the first
\* index from i on whose loaded row is not completed (NumChapters + 1: none).
\* A chapter number without a row ("none") is not among the loaded rows.
RECURSIVE SkipCompleted(_, _)
SkipCompleted(rows, i) ==
    IF i > NumChapters THEN i
    ELSE IF rows[i] \in {"completed", "none"} THEN SkipCompleted(rows, i + 1)
    ELSE i

\* UPDATE chapters SET ... WHERE id = ?: a statement for a row that is not in
\* the table changes nothing and does not reject.
UpdateRow(rows, i, v) ==
    IF rows[i] = "none" THEN rows ELSE [rows EXCEPT ![i] = v]

\* The loop passes the rows a..i-1 loaded as completed: each sets
\* previousContext from its stored detailed_note (written by the code as JSON,
\* so the parse succeeds), the last of them last.
ContextAfterSkip(c, rows, a, i) ==
    LET skipped == {j \in a..(i - 1) : j \in Chapters /\ rows[j] = "completed"}
    IN  [from |-> IF skipped = {} THEN c.from
                  ELSE CHOOSE j \in skipped : \A k \in skipped : k <= j,
         seen |-> c.seen \cup skipped]

\* A chapter catch that derives the context from the chapter that failed.
ContextFromFailed(c, i) == [c EXCEPT !.from = i]

\* The chapter's catch does not assign previousContext.
ContextAfterFailure(c, i) == c

\* The loaded rows the loop has still to visit once it works on row i.
Remaining(rows, i) ==
    [c \in Chapters |-> IF c <= i THEN "none" ELSE rows[c]]

\* SELECT raw_text of the lecture, then SELECT its chapters ORDER BY
\* chapter_number: the rows the whole run works from.
LoadChapters(r) ==
    /\ pc[r] = "load"
    /\ dbReady
    /\ \/ /\ lecture = "present"
          /\ snap' = [snap EXCEPT ![r] = status]
          /\ ctx' = [ctx EXCEPT ![r] = NoContext]
          /\ idx' = [idx EXCEPT ![r] = 1]
          /\ pc' = [pc EXCEPT ![r] = "loop"]
          /\ UNCHANGED <<kind, failed, evs, outcome, dbFaults>>
       \/ /\ lecture = "absent"      \* 'Lecture data not found': event, return
          /\ Left(r, "returned")
          /\ evs' = [evs EXCEPT ![r] = @ \cup {"error"}]
          /\ UNCHANGED <<failed, dbFaults>>
       \/ /\ DbMayFail
          /\ dbFaults' = dbFaults + 1
          /\ OuterCatch(r)
    /\ UNCHANGED <<bootVars, dbVars, regen>>

\* The head of the loop: skip the rows loaded as completed; for the next other
\* row, UPDATE its status to 'processing' and issue the deep-dive call.  After
\* the last row, generateFinalSummary is called.
BeginChapter(r) ==
    /\ pc[r] = "loop"
    /\ dbReady
    /\ LET i == SkipCompleted(snap[r], idx[r]) IN
       \/ /\ i > NumChapters
          /\ pc' = [pc EXCEPT ![r] = "summary"]
          /\ idx' = [idx EXCEPT ![r] = i]
          /\ snap' = [snap EXCEPT ![r] = Remaining(@, i)]
          /\ ctx' = [ctx EXCEPT ![r] = ContextAfterSkip(@, snap[r], idx[r], i)]
          /\ UNCHANGED <<status, kind, failed, evs, outcome, dbFaults>>
       \/ /\ i <= NumChapters
          /\ status' = UpdateRow(status, i, "processing")
          /\ pc' = [pc EXCEPT ![r] = "deepdive"]
          /\ idx' = [idx EXCEPT ![r] = i]
          /\ snap' = [snap EXCEPT ![r] = Remaining(@, i)]
          /\ ctx' = [ctx EXCEPT ![r] = ContextAfterSkip(@, snap[r], idx[r], i)]
          /\ UNCHANGED <<kind, failed, evs, outcome, dbFaults>>
       \/ /\ i <= NumChapters
          /\ DbMayFail          \* the UPDATE rejects, outside the inner try
          /\ dbFaults' = dbFaults + 1
          /\ OuterCatch(r)
          /\ UNCHANGED status
    /\ UNCHANGED <<bootVars, lecture, note, summary, regen>>

\* The deep-dive call of chapter idx[r] settles.  A response with text that
\* parses is stored with status 'completed', and after the awaited UPDATE
\* 'chapter_complete' is sent (the step from "deepdive" back to "loop"); an
\* API error, an empty response or a parse error is thrown into the chapter's
\* catch, and so is a rejected UPDATE.
EndChapter(r) ==
    /\ pc[r] = "deepdive"
    /\ dbReady
    /\ LET i == idx[r] IN
       \/ /\ backend[i] # "fail"
          /\ status' = UpdateRow(status, i, "completed")
          /\ note' = IF status[i] = "none" THEN note
                     ELSE [note EXCEPT ![i] = RunResult(r)]
          /\ idx' = [idx EXCEPT ![r] = i + 1]
          /\ pc' = [pc EXCEPT ![r] = "loop"]
          /\ ctx' = [ctx EXCEPT ![r] = [from |-> i, seen |-> @.seen \cup {i}]]
          /\ UNCHANGED <<failed, dbFaults>>
       \/ /\ backend[i] # "ok"
          /\ failed' = [failed EXCEPT ![r] = TRUE]
          /\ pc' = [pc EXCEPT ![r] = "catch"]
          /\ UNCHANGED <<status, note, idx, ctx, dbFaults>>
       \/ /\ backend[i] # "fail"
          /\ DbMayFail
          /\ dbFaults' = dbFaults + 1
          /\ failed' = [failed EXCEPT ![r] = TRUE]
          /\ pc' = [pc EXCEPT ![r] = "catch"]
          /\ UNCHANGED <<status, note, idx, ctx>>
    /\ UNCHANGED <<bootVars, lecture, summary, kind, snap, evs, outcome, regen>>

\* A chapter catch that gives the whole run up instead of going on.
ChapterCatchAborts(r) ==
    /\ pc[r] = "catch"
    /\ dbReady
    /\ status' = UpdateRow(status, idx[r], "error")
    /\ OuterCatch(r)
    /\ UNCHANGED <<bootVars, lecture, note, summary, regen, dbFaults>>

\* The chapter's catch: UPDATE its status to 'error', send 'chapter_error',
\* go on with the next chapter.  The UPDATE is not in a try of its own.
ChapterCatch(r) ==
    /\ pc[r] = "catch"
    /\ dbReady
    /\ LET i == idx[r] IN
       \/ /\ status' = UpdateRow(status, i, "error")
          /\ evs' = [evs EXCEPT ![r] = @ \cup {"chapter_error"}]
          /\ idx' = [idx EXCEPT ![r] = i + 1]
          /\ pc' = [pc EXCEPT ![r] = "loop"]
          /\ ctx' = [ctx EXCEPT ![r] = ContextAfterFailure(@, i)]
          /\ UNCHANGED <<kind, snap, failed, outcome, dbFaults>>
       \/ /\ DbMayFail
          /\ dbFaults' = dbFaults + 1
          /\ OuterCatch(r)
          /\ UNCHANGED status
    /\ UNCHANGED <<bootVars, lecture, note, summary, regen>>

\* generateFinalSummary has returned to processLectureBackground, which sends
\* 'complete' and returns; es are the error events the summary step sent.
Finished(r, es) ==
    /\ Left(r, "returned")
    /\ evs' = [evs EXCEPT ![r] = @ \cup es]

\* generateFinalSummary, up to its Gateway call: SELECT the chapters; with no
\* completed chapter it returns, else it issues the summary call.  Everything
\* is inside its try, whose catch sends an 'error' event.
SummaryLoad(r) ==
    /\ pc[r] = "summary"
    /\ dbReady
    /\ \/ /\ \A c \in Chapters : status[c] # "completed"
          /\ Finished(r, {})
          /\ UNCHANGED <<failed, dbFaults>>
       \/ /\ \E c \in Chapters : status[c] = "completed"
          /\ pc' = [pc EXCEPT ![r] = "summarizing"]
          /\ UNCHANGED <<kind, idx, snap, outcome, evs, failed, ctx, dbFaults>>
       \/ /\ DbMayFail
          /\ dbFaults' = dbFaults + 1
          /\ failed' = [failed EXCEPT ![r] = TRUE]
          /\ Finished(r, {"error"})
    /\ UNCHANGED <<bootVars, dbVars, regen>>

\* The summary call settles: a response with text is parsed and stored in
\* lectures.final_summary; a response without text is dropped silently; an API
\* error, a parse error or a rejected UPDATE goes to the catch.
SummaryEnd(r) ==
    /\ pc[r] = "summarizing"
    /\ dbReady
    /\ \/ /\ summary' = RunResult(r)
          /\ Finished(r, {})
          /\ UNCHANGED <<failed, dbFaults>>
       \/ /\ Finished(r, {})
          /\ UNCHANGED <<summary, failed, dbFaults>>
       \/ /\ failed' = [failed EXCEPT ![r] = TRUE]
          /\ Finished(r, {"error"})
          /\ UNCHANGED <<summary, dbFaults>>
       \/ /\ DbMayFail
          /\ dbFaults' = dbFaults + 1
          /\ failed' = [failed EXCEPT ![r] = TRUE]
          /\ Finished(r, {"error"})
          /\ UNCHANGED summary
    /\ UNCHANGED <<bootVars, lecture, status, note, regen>>

\* ------------------------------------------------------------- regenerate

\* POST /api/chapters/:id/regenerate: 404 without the row, 400 while its
\* detailed_note is NULL; else UPDATE its status to 'processing' and start the
\* background regeneration, whatever the chapter's status is.
Regenerate(c) ==
    /\ dbReady
    /\ regen.started < MaxRegens
    /\ c \notin regen.calling
    /\ status[c] # "none"
    /\ note[c] # NoResult
    /\ status' = [status EXCEPT ![c] = "processing"]
    /\ regen' = [calling |-> regen.calling \cup {c}, started |-> regen.started + 1]
    /\ UNCHANGED <<bootVars, lecture, note, summary, runVars, dbFaults>>

\* The regeneration call settles: the new result is stored with status
\* 'completed', or the catch sets status 'error'.
RegenerateEnd(c) ==
    /\ dbReady
    /\ c \in regen.calling
    /\ regen' = [regen EXCEPT !.calling = @ \ {c}]
    /\ \/ /\ status' = [status EXCEPT ![c] = "completed"]
          /\ note' = [note EXCEPT ![c] = RegenResult]
       \/ /\ status' = [status EXCEPT ![c] = "error"]
          /\ UNCHANGED note
    /\ UNCHANGED <<bootVars, lecture, summary, runVars, dbFaults>>

\* ------------------------------------------------------------------ system

Next ==
    \/ StartServer
    \/ DbInitStep
    \/ \E r \in Runs : CreateLecture(r)
    \/ \E r \in Runs : Retry(r)
    \/ \E r \in Runs : ContinueProcessing(r)
    \/ \E r \in Runs : LoadChapters(r)
    \/ \E r \in Runs : BeginChapter(r)
    \/ \E r \in Runs : EndChapter(r)
    \/ \E r \in Runs : ChapterCatch(r)
    \/ \E r \in Runs : SummaryLoad(r)
    \/ \E r \in Runs : SummaryEnd(r)
    \/ \E c \in Chapters : Regenerate(c)
    \/ \E c \in Chapters : RegenerateEnd(c)

Spec == Init /\ [][Next]_vars

\* A process life with a single run of processLectureBackground (and
\* regenerate requests beside it), against a backend whose answer for each
\* chapter is fixed or free.
Fresh == \A r \in Runs : pc[r] = "idle"

NextRun ==
    \/ StartServer
    \/ DbInitStep
    \/ \E r \in Runs : Fresh /\ CreateLecture(r)
    \/ \E r \in Runs : Fresh /\ Retry(r)
    \/ \E r \in Runs : Fresh /\ ContinueProcessing(r)
    \/ \E r \in Runs : LoadChapters(r)
    \/ \E r \in Runs : BeginChapter(r)
    \/ \E r \in Runs : EndChapter(r)
    \/ \E r \in Runs : ChapterCatch(r)
    \/ \E r \in Runs : SummaryLoad(r)
    \/ \E r \in Runs : SummaryEnd(r)
    \/ \E c \in Chapters : Regenerate(c)
    \/ \E c \in Chapters : RegenerateEnd(c)

SpecRun == InitRun /\ [][NextRun]_vars

\* ------------------------------------------------- summary and export requests
sumVars == <<server, dbQueue, recovered, prior, backend, gw, fn>>

\* A filter that also takes the failed chapters.
Terminal == {c \in Chapters : status[c] \in {"completed", "error"}}

\* chapters.filter(c => c.status === 'completed'), WHERE status = 'completed'
Completed == {c \in Chapters : status[c] = "completed"}

\* POST /api/lectures/:id/generate-summary: 400 without an API key, 400
\* without a completed chapter, 500 when the SELECT rejects; else
\* generateFinalSummary is started in the background (task r) and the
\* response says so.
GenerateSummary(r, hasKey) ==
    /\ server = "up"
    /\ http.n < MaxRequests
    /\ \/ /\ ~hasKey
          /\ http' = [http EXCEPT !.summary = "400 API Key required", !.n = @ + 1]
          /\ UNCHANGED <<runVars, dbFaults>>
       \/ /\ hasKey
          /\ dbReady
          /\ Completed = {}
          /\ http' = [http EXCEPT !.summary = "400 No completed chapters to summarize",
                                  !.n = @ + 1]
          /\ UNCHANGED <<runVars, dbFaults>>
       \/ /\ hasKey
          /\ dbReady
          /\ Completed # {}
          /\ CanStart(r)
          /\ pc' = [pc EXCEPT ![r] = "summary"]
          /\ kind' = [kind EXCEPT ![r] = "summary"]
          /\ http' = [http EXCEPT !.summary = "200 started", !.n = @ + 1]
          /\ UNCHANGED <<idx, snap, failed, evs, outcome, ctx, dbFaults>>
       \/ /\ hasKey
          /\ dbReady
          /\ DbMayFail
          /\ dbFaults' = dbFaults + 1
          /\ http' = [http EXCEPT !.summary = "500", !.n = @ + 1]
          /\ UNCHANGED runVars
    /\ UNCHANGED <<sumVars, dbVars, regen>>

\* GET /api/lectures/:id/pdf: 404 without the lecture, 400 without a completed
\* chapter, 500 when a statement or the rendering fails, else the document.
ExportPdf ==
    /\ server = "up"
    /\ dbReady
    /\ http.n < MaxRequests
    /\ \/ /\ lecture = "absent"
          /\ http' = [http EXCEPT !.pdf = "404 Lecture not found", !.n = @ + 1]
          /\ UNCHANGED dbFaults
       \/ /\ lecture = "present"
          /\ Completed = {}
          /\ http' = [http EXCEPT !.pdf = "400 No completed chapters to export",
                                  !.n = @ + 1]
          /\ UNCHANGED dbFaults
       \/ /\ lecture = "present"
          /\ Completed # {}
          /\ \E answer \in {"200 pdf", "500"} :
                http' = [http EXCEPT !.pdf = answer, !.n = @ + 1]
          /\ UNCHANGED dbFaults
       \/ /\ DbMayFail
          /\ dbFaults' = dbFaults + 1
          /\ http' = [http EXCEPT !.pdf = "500", !.n = @ + 1]
    /\ UNCHANGED <<sumVars, dbVars, runVars, regen>>

\* One run of processLectureBackground, with summary and export requests
\* arriving at any moment.
NextSummary ==
    \/ StartServer
    \/ DbInitStep
    \/ \E r \in Runs : Fresh /\ CreateLecture(r)
    \/ \E r \in Runs : Fresh /\ Retry(r)
    \/ \E r \in Runs : Fresh /\ ContinueProcessing(r)
    \/ \E r \in Runs : LoadChapters(r)
    \/ \E r \in Runs : BeginChapter(r)
    \/ \E r \in Runs : EndChapter(r)
    \/ \E r \in Runs : ChapterCatch(r)
    \/ \E r \in Runs : SummaryLoad(r)
    \/ \E r \in Runs : SummaryEnd(r)
    \/ \E r \in Runs, hasKey \in BOOLEAN : GenerateSummary(r, hasKey)
    \/ ExportPdf

SpecSummary == Init /\ [][NextSummary]_vars

\* -------------------------------------------------------- gateway actions
otherVars == <<server, dbQueue, recovered, prior, backend, dbVars, runVars,
               regen, dbFaults, fn, http>>

\* The head of the while loop: send the next request, or leave the loop.
LoopHead(g) ==
    IF g.retryCount <= g.maxRetries
    THEN [g EXCEPT !.pc = "calling", !.calls = @ + 1]
    ELSE [g EXCEPT !.pc = "done",
                   !.result = Failure(<<"Max", "retries", "exceeded">>, g.retryCount)]

\* generateContent(request) on a provider constructed with cfg, up to the
\* await of the first request.
GwCall(cfg, schema) ==
    /\ gw.pc = "idle"
    /\ gw' = LoopHead([gw EXCEPT !.maxRetries = ConfiguredMaxRetries(cfg),
                                 !.schema = schema])
    /\ UNCHANGED otherVars

\* The backend settles the request: the rest of the try, or the catch up to
\* its return or its await of sleep.
GwAnswer(resp) ==
    /\ gw.pc = "calling"
    /\ LET t == TryBody(resp, gw.schema)
           rc == NextRetryCount(gw.retryCount)
           isRetryable == isRetryableError(t.error)
           counted == [gw EXCEPT !.retryCount = rc,
                                 !.lastError = t.error,
                                 !.retryable = @ + (IF isRetryable THEN 1 ELSE 0)]
       IN  IF t.ok
           THEN gw' = [gw EXCEPT !.pc = "done",
                                 !.result = Success(t.data, t.raw, gw.retryCount)]
           ELSE IF rc > gw.maxRetries \/ ~isRetryable
           THEN gw' = [counted EXCEPT !.pc = "done",
                                      !.result = Failure(t.error, rc)]
           ELSE gw' = [counted EXCEPT !.pc = "sleeping",
                                      !.delays = Append(@, BackoffDelay(rc))]
    /\ UNCHANGED otherVars

\* The sleep is over: back to the head of the loop.
GwWake ==
    /\ gw.pc = "sleeping"
    /\ gw' = LoopHead(gw)
    /\ UNCHANGED otherVars

InitGateway ==
    /\ InitStore
    /\ lecture = "absent"
    /\ backend = [c \in Chapters |-> "any"]

NextGateway ==
    \/ \E cfg \in ProviderConfigs, schema \in BOOLEAN : GwCall(cfg, schema)
    \/ \E resp \in BackendResponses : GwAnswer(resp)
    \/ GwWake

\* The backend settles every request and every timer fires.
SpecGateway == InitGateway /\ [][NextGateway]_vars /\ WF_vars(NextGateway)

\* ------------------------------------------------------ chapter merge step
ProposalLists == UNION {[1..n -> StartTimes] : n \in 1..MaxProposals}

Merge(proposals, ends, hasTimestamps) ==
    /\ fn.merge.pc = "idle"
    /\ fn' = [fn EXCEPT !.merge =
                [pc |-> "merged", proposals |-> proposals, ends |-> ends,
                 hasTimestamps |-> hasTimestamps,
                 allChapters |-> MergeChapters(proposals, hasTimestamps)]]
    /\ UNCHANGED <<server, dbQueue, recovered, prior, backend, dbVars, runVars,
                   regen, dbFaults, gw, http>>

\* The i-th proposal has startTime proposals[i] and endTime ends[i]; the merge
\* pushes the proposed chapter whole, so a retained chapter keeps both.
NextMerge ==
    /\ fn.merge.pc = "idle"
    /\ \E proposals \in ProposalLists, hasTimestamps \in BOOLEAN :
          \E ends \in [1..Len(proposals) -> {<<1, 0>>, <<10, 0>>}] :
              Merge(proposals, ends, hasTimestamps)

SpecMerge == InitGateway /\ [][NextMerge]_vars

\* ------------------------------------------------------- corrector actions
\* correctWithLLM(segment, aiProvider, cfg) up to its return or its await of
\* aiProvider.generateContent.
CorrectStart(segment, cfg) ==
    /\ fn.correct.pc = "idle"
    /\ fn' = [fn EXCEPT !.correct =
                IF ~cfg.enabled
                THEN [@ EXCEPT !.pc = "done", !.segment = segment, !.cfg = cfg,
                               !.result = SkippedResult(segment)]
                ELSE IF segment = <<>> \/ Len(trim(segment)) = 0
                THEN [@ EXCEPT !.pc = "done", !.segment = segment, !.cfg = cfg,
                               !.result = EmptyResult(segment)]
                ELSE [@ EXCEPT !.pc = "calling", !.segment = segment, !.cfg = cfg,
                               !.calls = @ + 1]]
    /\ UNCHANGED <<server, dbQueue, recovered, prior, backend, dbVars, runVars,
                   regen, dbFaults, gw, http>>

\* The gateway settles: the failure result, or the corrections applied.
CorrectAnswer(response) ==
    /\ fn.correct.pc = "calling"
    /\ LET c == fn.correct
       IN  fn' = [fn EXCEPT !.correct =
                    [@ EXCEPT !.pc = "done", !.response = response,
                              !.result =
                                 IF response.kind = "ok"
                                 THEN CorrectedResult(c.segment, c.cfg,
                                                      response.corrections)
                                 ELSE FailureResult(c.segment,
                                          textToProcess(c.segment, c.cfg),
                                          response.error)]]
    /\ UNCHANGED <<server, dbQueue, recovered, prior, backend, dbVars, runVars,
                   regen, dbFaults, gw, http>>

NextCorrect ==
    \/ \E segment \in SegmentTexts, cfg \in CorrectionConfigs :
          CorrectStart(segment, cfg)
    \/ \E response \in CorrectorResponses : CorrectAnswer(response)

SpecCorrect == InitGateway /\ [][NextCorrect]_vars

\* -------------------------------------------------------- segmenter actions
Split(lines, segmentMinutes, charsPerSegment) ==
    /\ fn.segmenter.pc = "idle"
    /\ LET r == splitIntoSegments(lines, segmentMinutes, charsPerSegment)
       IN  fn' = [fn EXCEPT !.segmenter =
                    [pc |-> "split", lines |-> lines,
                     segmentMinutes |-> segmentMinutes,
                     charsPerSegment |-> charsPerSegment,
                     byCharCount |-> r.byCharCount, segments |-> r.segments]]
    /\ UNCHANGED <<server, dbQueue, recovered, prior, backend, dbVars, runVars,
                   regen, dbFaults, gw, http>>

NextSegment ==
    \/ \E lines \in Transcripts, segmentMinutes \in SegmentMinutes :
          Split(lines, segmentMinutes, DefaultCharsPerSegment)
    \/ \E lines \in PlainTranscripts, charsPerSegment \in CharBudgets :
          Split(lines, DefaultSegmentMinutes, charsPerSegment)

SpecSegment == InitGateway /\ [][NextSegment]_vars

\* ------------------------------------------------- slice extractor actions
Slice(lines, startStr, endStr) ==
    /\ fn.slice.pc = "idle"
    /\ LET r == extractSlice(lines, startStr, endStr)
       IN  fn' = [fn EXCEPT !.slice =
                    [pc |-> "sliced", lines |-> lines, startStr |-> startStr,
                     endStr |-> endStr, first |-> r.first, last |-> r.last]]
    /\ UNCHANGED <<server, dbQueue, recovered, prior, backend, dbVars, runVars,
                   regen, dbFaults, gw, http>>

NextSlice ==
    \E lines \in SliceTranscripts, startStr \in SliceTimes, endStr \in SliceTimes :
        Slice(lines, startStr, endStr)

SpecSlice == InitGateway /\ [][NextSlice]_vars

\* ------------------------------------------------------ normalizer actions
Normalize(text, cfg) ==
    /\ fn.normalizer.pc = "idle"
    /\ fn' = [fn EXCEPT !.normalizer =
                [@ EXCEPT !.pc = "once", !.input = text, !.cfg = cfg,
                          !.text = normalizeText(text, cfg)]]
    /\ UNCHANGED <<server, dbQueue, recovered, prior, backend, dbVars, runVars,
                   regen, dbFaults, gw, http>>

\* normalizeText on the text it returned, with the same config
NormalizeAgain ==
    /\ fn.normalizer.pc = "once"
    /\ fn' = [fn EXCEPT !.normalizer =
                [@ EXCEPT !.pc = "twice",
                          !.again = normalizeText(fn.normalizer.text,
                                                  fn.normalizer.cfg)]]
    /\ UNCHANGED <<server, dbQueue, recovered, prior, backend, dbVars, runVars,
                   regen, dbFaults, gw, http>>

NextNormalize ==
    \/ /\ fn.normalizer.pc = "idle"
       /\ \E text \in RawTexts, cfg \in NormalizerConfigs : Normalize(text, cfg)
    \/ NormalizeAgain

SpecNormalize == InitGateway /\ [][NextNormalize]_vars

\* ------------------------------------------------ lecture creation actions
reqVars == <<server, dbQueue, recovered, prior, backend, gw, http, regen>>

\* POST /api/lectures with a transcript and an API key, up to its first
\* Gateway calls.  preprocessTranscript normalizes the transcript and, with
\* llmCorrectionEnabled, cuts it into chunks (none: correction is off or the
\* text is empty) and correctSegmentsBatch issues the calls of its first
\* batch.  Without chunks the transcript is split into n segments at once and
\* the proposal calls of the first batch are issued; without segments the
\* handler goes on to the title call.
PostLecture(chunks, n, hasTimestamps) ==
    /\ server = "up"
    /\ fn.create.pc = "idle"
    /\ lecture = "absent"
    /\ n = 0 => ~hasTimestamps
    /\ fn' = [fn EXCEPT !.create =
                [@ EXCEPT !.pc = IF chunks > 0 THEN "correcting"
                                 ELSE IF n = 0 THEN "title" ELSE "batch",
                          !.chunks = chunks, !.n = n,
                          !.hasTimestamps = hasTimestamps, !.i = 0,
                          !.pending = IF chunks > 0
                                      THEN Batch(0, DefaultBatchSize, chunks)
                                      ELSE Batch(0, BatchSize, n)]]
    /\ UNCHANGED <<reqVars, dbVars, runVars, dbFaults>>

\* One correctWithLLM call of the batch in flight settles (it never rejects).
\* When Promise.all resolves, correctSegmentsBatch sleeps before the next
\* batch or, after the last batch, returns: the corrections are applied, the
\* text is split into n segments and the first proposal calls are issued.
CorrectionAnswer(k) ==
    /\ fn.create.pc = "correcting"
    /\ k \in fn.create.pending
    /\ LET c == fn.create
           pending == c.pending \ {k}
       IN  fn' = [fn EXCEPT !.create =
                IF ~AllSettled(pending)
                  THEN [c EXCEPT !.pending = pending]
                ELSE IF c.i + DefaultBatchSize < c.chunks
                  THEN [c EXCEPT !.pending = pending, !.pc = "sleep"]
                ELSE [c EXCEPT !.pc = IF c.n = 0 THEN "title" ELSE "batch",
                               !.chunks = 0, !.i = 0,
                               !.pending = pending \cup Batch(0, BatchSize, c.n)]]
    /\ UNCHANGED <<reqVars, dbVars, runVars, dbFaults>>

\* sleep(100) between two correction batches is over: the next batch's calls
\* are issued.
CorrectionDelay ==
    /\ fn.create.pc = "sleep"
    /\ LET i == fn.create.i + DefaultBatchSize IN
       fn' = [fn EXCEPT !.create =
                [@ EXCEPT !.pc = "correcting", !.i = i,
                          !.pending = @ \cup Batch(i, DefaultBatchSize,
                                                   fn.create.chunks)]]
    /\ UNCHANGED <<reqVars, dbVars, runVars, dbFaults>>

\* One proposal call of the batch in flight settles.  When it is the batch's
\* last, Promise.all resolves: the handler waits before the next batch or,
\* after the last batch, merges the chapters and issues the title call.  A
\* promise processSegment rejected would reject Promise.all: outer catch, 500.
SegmentAnswer(k, answer) ==
    /\ fn.create.pc = "batch"
    /\ k \in fn.create.pending
    /\ LET c == fn.create
           result == processSegment(answer)
           results == [c.results EXCEPT ![k] =
                          [done |-> TRUE, failed |-> ~answer.ok,
                           chapters |-> result.chapters]]
           pending == c.pending \ {k}
           Proposals[j \in 0..c.n] ==
               IF j = 0 THEN <<>> ELSE Proposals[j - 1] \o results[j - 1].chapters
       IN  /\ Len(Proposals[c.n]) <= NumChapters
           /\ fn' = [fn EXCEPT !.create =
                IF result.thrown
                  THEN [c EXCEPT !.pc = "failed", !.pending = pending]
                ELSE IF ~AllSettled(pending)
                  THEN [c EXCEPT !.results = results, !.pending = pending]
                ELSE IF c.i + BatchSize < c.n
                  THEN [c EXCEPT !.results = results, !.pending = pending,
                                 !.pc = "delay"]
                ELSE [c EXCEPT !.results = results, !.pending = pending,
                               !.pc = "title",
                               !.allChapters =
                                   MergeChapters(Proposals[c.n], c.hasTimestamps)]]
    /\ UNCHANGED <<reqVars, dbVars, runVars, dbFaults>>

\* The delay between two batches is over: the next batch's calls are issued.
BatchDelay ==
    /\ fn.create.pc = "delay"
    /\ LET i == fn.create.i + BatchSize IN
       fn' = [fn EXCEPT !.create =
                [@ EXCEPT !.pc = "batch", !.i = i,
                          !.pending = @ \cup Batch(i, BatchSize, fn.create.n)]]
    /\ UNCHANGED <<reqVars, dbVars, runVars, dbFaults>>

\* The title call settles; its errors stay in its own try.  The INSERT of the
\* lecture row is issued.
TitleAnswer ==
    /\ fn.create.pc = "title"
    /\ fn' = [fn EXCEPT !.create.pc = "lecture"]
    /\ UNCHANGED <<reqVars, dbVars, runVars, dbFaults>>

\* The INSERT of the lecture row is executed.  Without chapters the handler
\* then responds and starts processLectureBackground; a rejected INSERT goes
\* to the outer catch (500).
InsertLecture ==
    /\ fn.create.pc = "lecture"
    /\ dbReady
    /\ \/ /\ lecture' = "present"
          /\ IF fn.create.allChapters = <<>>
               THEN /\ fn' = [fn EXCEPT !.create.pc = "responded"]
                    /\ Started(1, "create")
               ELSE /\ fn' = [fn EXCEPT !.create.pc = "chapters"]
                    /\ UNCHANGED runVars
          /\ UNCHANGED dbFaults
       \/ /\ DbMayFail
          /\ dbFaults' = dbFaults + 1
          /\ fn' = [fn EXCEPT !.create.pc = "failed"]
          /\ UNCHANGED <<lecture, runVars>>
    /\ UNCHANGED <<reqVars, status, note, summary>>

\* A handler that responds once the first chapter row is in.
OneInserted(m, allChapters) == TRUE

\* "for (const ch of allChapters)" has awaited its last INSERT.
AllInserted(m, allChapters) == m = Len(allChapters)

\* The INSERT of the next chapter row, status 'pending', is executed.  After
\* the last one the handler responds and starts processLectureBackground.
InsertChapter ==
    /\ fn.create.pc = "chapters"
    /\ dbReady
    /\ LET m == fn.create.inserted + 1 IN
       \/ /\ status' = [status EXCEPT ![m] = "pending"]
          /\ IF AllInserted(m, fn.create.allChapters)
               THEN /\ fn' = [fn EXCEPT !.create.pc = "responded",
                                        !.create.inserted = m]
                    /\ Started(1, "create")
               ELSE /\ fn' = [fn EXCEPT !.create.inserted = m]
                    /\ UNCHANGED runVars
          /\ UNCHANGED dbFaults
       \/ /\ DbMayFail
          /\ dbFaults' = dbFaults + 1
          /\ fn' = [fn EXCEPT !.create.pc = "failed"]
          /\ UNCHANGED <<status, runVars>>
    /\ UNCHANGED <<reqVars, lecture, note, summary>>

NextCreate ==
    \/ StartServer
    \/ DbInitStep
    \/ /\ fn.create.pc = "idle"
       /\ \E chunks \in 0..MaxCorrectionChunks, n \in 0..MaxSegments,
             hasTimestamps \in BOOLEAN :
              PostLecture(chunks, n, hasTimestamps)
    \/ \E k \in 0..(MaxCorrectionChunks - 1) : CorrectionAnswer(k)
    \/ CorrectionDelay
    \/ /\ fn.create.pc = "batch"
       /\ \E k \in 0..(MaxSegments - 1), answer \in SegmentAnswers :
              SegmentAnswer(k, answer)
    \/ BatchDelay
    \/ TitleAnswer
    \/ InsertLecture
    \/ InsertChapter

SpecCreate == InitGateway /\ [][NextCreate]_vars

\* The request together with the background run it starts.
NextCreateRun ==
    \/ NextCreate
    \/ \E r \in Runs : LoadChapters(r)
    \/ \E r \in Runs : BeginChapter(r)
    \/ \E r \in Runs : EndChapter(r)
    \/ \E r \in Runs : ChapterCatch(r)
    \/ \E r \in Runs : SummaryLoad(r)
    \/ \E r \in Runs : SummaryEnd(r)

SpecCreateRun == InitGateway /\ [][NextCreateRun]_vars

\* ------------------------------------------------ lecture deletion actions

\* DELETE /api/lectures/:id for the lecture (its id is known once GET
\* /api/lectures lists it), first statement: DELETE FROM chapters WHERE
\* lecture_id = ?.  A rejected statement goes to the catch (500).
DeleteChapters ==
    /\ dbReady
    /\ fn.create.del = "idle"
    /\ lecture = "present"
    /\ \/ /\ status' = [c \in Chapters |-> "none"]
          /\ note' = [c \in Chapters |-> NoResult]
          /\ fn' = [fn EXCEPT !.create.del = "lecture"]
          /\ UNCHANGED dbFaults
       \/ /\ DbMayFail
          /\ dbFaults' = dbFaults + 1
          /\ fn' = [fn EXCEPT !.create.del = "failed"]
          /\ UNCHANGED <<status, note>>
    /\ UNCHANGED <<reqVars, lecture, summary, runVars>>

\* Its second statement: DELETE FROM lectures WHERE id = ?, then the response.
DeleteLecture ==
    /\ dbReady
    /\ fn.create.del = "lecture"
    /\ \/ /\ lecture' = "absent"
          /\ summary' = NoResult
          /\ fn' = [fn EXCEPT !.create.del = "done"]
          /\ UNCHANGED dbFaults
       \/ /\ DbMayFail
          /\ dbFaults' = dbFaults + 1
          /\ fn' = [fn EXCEPT !.create.del = "failed"]
          /\ UNCHANGED <<lecture, summary>>
    /\ UNCHANGED <<reqVars, status, note, runVars>>

\* Creation, the background run it starts, and one DELETE of the lecture.
NextDelete ==
    \/ NextCreateRun
    \/ DeleteChapters
    \/ DeleteLecture

SpecDelete == InitGateway /\ [][NextDelete]_vars

\* ------------------------------------------------ correction chunk actions

\* preprocessTranscript with llmCorrectionEnabled and an API key, up to the
\* loop: the transcript is normalized and becomes the remaining text.
Preprocess(transcript) ==
    /\ fn.chunker.pc = "idle"
    /\ fn' = [fn EXCEPT !.chunker =
                LET text == normalizeText(transcript, DefaultNormalizerConfig)
                IN  [pc |-> "loop", segments |-> <<>>, remaining |-> text,
                     normalized |-> text, processedText |-> text,
                     applied |-> 0]]
    /\ UNCHANGED <<reqVars, dbVars, runVars, dbFaults>>

\* One iteration of "while (remaining.length > 0)".
ChunkStep ==
    /\ fn.chunker.pc = "loop"
    /\ Len(fn.chunker.segments) < MaxChunks
    /\ LET remaining == fn.chunker.remaining
           bp == breakPoint(remaining, SegmentSize)
       IN  fn' = [fn EXCEPT !.chunker =
             IF Len(remaining) = 0
               THEN [@ EXCEPT !.pc = "done"]
             ELSE IF Len(remaining) <= SegmentSize
               THEN [@ EXCEPT !.pc = "done",
                              !.segments = Append(@, remaining)]
             ELSE [@ EXCEPT !.segments = Append(@, SubSeq(remaining, 1, bp)),
                            !.remaining =
                                TrimEnd(TrimStart(SubSeq(remaining, bp + 1,
                                                         Len(remaining))))]]
    /\ UNCHANGED <<reqVars, dbVars, runVars, dbFaults>>

\* After the loop: correctSegmentsBatch answers one result per chunk,
\* applyCorrections takes the corrected text of the successful ones, and the
\* chunks are joined with an empty line between them into the text handed on.
\* results[i] is what the call for chunk i gives: "failed" (success: false),
\* "empty" (success with no corrections) or "edit" (success with the
\* correction of "a" into "b", applied when the chunk includes "a").  No
\* chunk is empty here and none is longer than maxSegmentLength.
Rejoin(results) ==
    /\ fn.chunker.pc = "done"
    /\ LET segments == fn.chunker.segments
           valid == {i \in 1..Len(segments) :
                        results[i] = "edit" /\ includes(segments[i], <<"a">>)}
           correctedText(i) ==
               IF i \in valid THEN replace(segments[i], <<"a">>, <<"b">>)
               ELSE segments[i]
           correctedSegments == [i \in 1..Len(segments) |-> correctedText(i)]
       IN  fn' = [fn EXCEPT !.chunker =
                    [@ EXCEPT !.pc = "joined",
                              !.processedText =
                                  Join(correctedSegments, <<"\n", "\n">>),
                              !.applied = Cardinality(valid)]]
    /\ UNCHANGED <<reqVars, dbVars, runVars, dbFaults>>

NextChunk ==
    \/ /\ fn.chunker.pc = "idle"
       /\ \E transcript \in ChunkTexts : Preprocess(transcript)
    \/ ChunkStep
    \/ /\ fn.chunker.pc = "done"
       /\ \E results \in [1..Len(fn.chunker.segments) ->
                             {"failed", "empty", "edit"}] : Rejoin(results)

SpecChunk == InitGateway /\ [][NextChunk]_vars

\* ================================================================ claims

Processing == {c \in Chapters : status[c] = "processing"}

\* C1: once the process is up and recovered, at most one chapter of the
\* lecture has status 'processing' at any moment.
OneProcessingAtATime ==
    recovered => Cardinality(Processing) <= 1

\* C2: no two deep-dive calls for the same chapter are in flight at the same
\* time, whatever runs (creation, retry, continue-processing) interleave.
OneCallPerChapter ==
    \A r1, r2 \in Runs :
        (r1 # r2 /\ pc[r1] = "deepdive" /\ pc[r2] = "deepdive")
            => idx[r1] # idx[r2]

\* C3: no step of a retry or continue-processing run changes the status or the
\* stored result of a chapter whose persisted status is 'completed' (and so
\* issues no deep-dive call for it).
RetryLeavesCompleted ==
    [][\A r \in Runs, c \in Chapters :
          (kind[r] \in {"retry", "continue"} /\ pc'[r] # pc[r]
              /\ status[c] = "completed")
            => (status'[c] = "completed" /\ note'[c] = note[c])]_vars

\* C4: in one run in which the deep-dive call of chapter k always fails and
\* every other call succeeds (no database failure, no regeneration beside it),
\* chapter k ends 'error', every other chapter ends 'completed', and the run
\* returns.
PartialFailureTolerated ==
    \A r \in Runs, k \in Chapters :
        ( /\ pc[r] = "done"
          /\ lecture = "present"
          /\ dbFaults = 0
          /\ regen.started = 0
          /\ backend[k] = "fail"
          /\ prior[k] # "completed"
          /\ \A c \in Chapters \ {k} : backend[c] = "ok" )
        => ( /\ status[k] = "error"
             /\ \A c \in Chapters \ {k} : status[c] = "completed"
             /\ outcome[r] = "returned" )

\* C4 witness: a run is done in which the first chapter's call failed and the
\* chapters after it were still completed.
PartialFailureSeen ==
    \E r \in Runs :
        /\ pc[r] = "done"
        /\ lecture = "present"
        /\ dbFaults = 0
        /\ regen.started = 0
        /\ backend[1] = "fail"
        /\ prior[1] = "pending"
        /\ \A c \in Chapters \ {1} : backend[c] = "ok" /\ prior[c] # "completed"
        /\ status[1] = "error"
        /\ \A c \in Chapters \ {1} : status[c] = "completed"

\* No handler has executed a statement on the chapters since the process
\* started.
NoWorkYet ==
    /\ \A r \in Runs : pc[r] \in {"idle", "load"}
    /\ regen.started = 0
    /\ lecture = (IF \A c \in Chapters : prior[c] = "none" THEN "absent" ELSE "present")

\* C5: after the startup recovery has run, every chapter persisted as
\* 'processing' is 'pending' and every other chapter has the status it was
\* persisted with.
RecoveryResetsOnlyProcessing ==
    (recovered /\ NoWorkYet) =>
        \A c \in Chapters :
            /\ prior[c] = "processing" => status[c] = "pending"
            /\ prior[c] # "processing" => status[c] = prior[c]

\* C5 witness: recovery has run on a store with a stuck chapter and a chapter
\* in another status.
RecoverySeen ==
    /\ recovered
    /\ NoWorkYet
    /\ \E c, d \in Chapters :
          /\ prior[c] = "processing" /\ status[c] = "pending"
          /\ prior[d] \in {"completed", "error"} /\ status[d] = prior[d]

LegalTransitions ==
    [][\A c \in Chapters :
          (status'[c] # status[c] /\ status[c] # "none") =>
              \/ <<status[c], status'[c]>> \in
                    { <<"pending", "processing">>, <<"processing", "completed">>,
                      <<"processing", "error">>, <<"error", "processing">> }
              \/ /\ <<status[c], status'[c]>> = <<"completed", "processing">>
                 /\ regen' # regen
              \/ /\ <<status[c], status'[c]>> = <<"processing", "pending">>
                 /\ ~recovered /\ recovered']_vars

\* C8: processLectureBackground never rejects: a run that is left has
\* returned, and if something failed in it, it has sent an 'error' event or
\* (with the chapter's status set to 'error') a 'chapter_error' event.
NeverRejects ==
    \A r \in Runs :
        /\ outcome[r] # "rejected"
        /\ pc[r] = "done" => outcome[r] = "returned"
        /\ (pc[r] = "done" /\ failed[r]) => evs[r] # {}

\* C8 witness: a run has returned after a database statement rejected in it.
FailureAbsorbed ==
    \E r \in Runs :
        pc[r] = "done" /\ failed[r] /\ dbFaults > 0 /\ outcome[r] = "returned"

\* C9: generateContent never rejects: whatever the backend does, a failed call
\* resolves to a result with success false, an error message and the
\* retryCount.
GatewayNeverThrows ==
    /\ gw.result.settled # "rejected"
    /\ gw.pc = "done" =>
          /\ gw.result.settled = "resolved"
          /\ ~gw.result.success =>
                /\ gw.result.error # <<>>
                /\ gw.result.data = <<>>
                /\ gw.result.retryCount = gw.retryCount
                /\ gw.result.retryCount \in 1..(gw.maxRetries + 1)

\* C9 witness: a call has resolved with success false after the backend
\* rejected with an error that is not retryable.
GatewayFailureResolved ==
    /\ gw.pc = "done"
    /\ gw.result.settled = "resolved"
    /\ ~gw.result.success
    /\ gw.result.error \in BackendErrors
    /\ ~isRetryableError(gw.result.error)

\* Every attempt so far has failed with a retryable error.
AllRetryable == gw.calls > 0 /\ gw.retryable = gw.calls - (IF gw.pc = "calling" THEN 1 ELSE 0)

\* C10: when every attempt fails with a retryable error, the gateway sleeps
\* and retries at most maxRetries times (at most maxRetries + 1 requests), the
\* call ends, and it resolves with success false.
RetriesBounded ==
    /\ [](/\ gw.calls <= gw.maxRetries + 1
          /\ Len(gw.delays) <= gw.maxRetries
          /\ (gw.pc = "done" /\ AllRetryable) =>
                (gw.result.settled = "resolved" /\ ~gw.result.success))
    /\ (gw.pc = "calling") ~> (gw.pc = "done")

\* C10 witness: with the default maxRetries, a call is done after
\* DefaultMaxRetries + 1 requests that all failed with a retryable error.
RetriesExhausted ==
    /\ gw.pc = "done"
    /\ AllRetryable
    /\ gw.maxRetries = DefaultMaxRetries
    /\ gw.calls = DefaultMaxRetries + 1
    /\ Len(gw.delays) = DefaultMaxRetries
    /\ ~gw.result.success

\* Messages that contain none of the transient patterns: the backend's
\* rejection of the API key and the gateway's own error for an empty text.
NonTransientErrors ==
    { <<"API", "key", "not", "valid">>,
      <<"Empty", "response", "from", "Gemini", "API">> }

\* C11: an error whose message matches none of the transient patterns ends the
\* call at once: no request and no sleep follows it, so when it is the first
\* error exactly one request has been sent and no backoff delay has occurred.
NonTransientFailsImmediately ==
    gw.lastError \in NonTransientErrors =>
        /\ gw.pc = "done"
        /\ gw.result = Failure(gw.lastError, gw.retryCount)
        /\ gw.calls = gw.retryable + 1
        /\ Len(gw.delays) = gw.retryable
        /\ gw.retryable = 0 => (gw.calls = 1 /\ gw.delays = <<>>)

\* C11 witness: with the default maxRetries, a call has failed on the rejected
\* API key after one request and no sleep.
NonTransientFailureSeen ==
    /\ gw.pc = "done"
    /\ gw.maxRetries = DefaultMaxRetries
    /\ gw.lastError = <<"API", "key", "not", "valid">>
    /\ gw.calls = 1
    /\ gw.delays = <<>>
    /\ ~gw.result.success

\* The error was thrown by the catch around JSON.parse.
IsParseFailure(m) ==
    /\ Len(m) >= 5
    /\ SubSeq(m, 1, 5) = <<"Failed", "to", "parse", "JSON", "response:">>

\* C12: a text that the backend delivered and that does not parse as JSON is
\* never retried: the call resolves with success false after that attempt.
ParseFailureNotRetried ==
    IsParseFailure(gw.lastError) =>
        /\ gw.pc = "done"
        /\ gw.result = Failure(gw.lastError, gw.retryCount)

\* C13: the n-th sleep of a call lasts min(1000 * 2^(n-1), 10000) ms: 1000,
\* 2000, 4000 for the first three, and never more than 10000.
BackoffSchedule ==
    \A n \in 1..Len(gw.delays) :
        /\ gw.delays[n] = (CASE n = 1 -> 1000 [] n = 2 -> 2000 [] n = 3 -> 4000
                             [] n = 4 -> 8000 [] OTHER -> 10000)
        /\ gw.delays[n] <= 10000

\* C13 witness: a call has slept five times, the third time 4000 ms and the
\* fifth time the capped 10000 ms.
BackoffCapReached ==
    /\ Len(gw.delays) >= 5
    /\ gw.delays[3] = 4000
    /\ gw.delays[5] = 10000

\* The proposals (by position) that the merge kept.
Retained == {fn.merge.allChapters[k].n : k \in 1..Len(fn.merge.allChapters)}

\* The seconds between the start times of proposals i and j.
StartsApart(i, j) ==
    LET a == parseTime(fn.merge.proposals[i])
        b == parseTime(fn.merge.proposals[j])
    IN  IF a < b THEN b - a ELSE a - b

\* C14: in the merge for a timestamped transcript, of two proposed chapters
\* that start less than 120 s apart exactly one is retained, the first in
\* segment order, and two that start 121 s or more apart are both retained;
\* among any number of proposals no two retained ones start less than 120 s
\* apart, and a proposal is dropped only for a retained one before it.
MergeWindow ==
    (fn.merge.pc = "merged" /\ fn.merge.hasTimestamps) =>
        /\ Len(fn.merge.proposals) = 2 =>
              /\ StartsApart(1, 2) < 120 => Retained = {1}
              /\ StartsApart(1, 2) >= 121 => Retained = {1, 2}
        /\ \A i, j \in Retained : i # j => StartsApart(i, j) >= 120
        /\ \A j \in 1..Len(fn.merge.proposals) :
              j \notin Retained =>
                  \E i \in Retained : i < j /\ StartsApart(i, j) < 120

\* C14 witness: proposals at 0:00 and 1:30 (90 s apart) have been merged into
\* the one chapter proposed first.
MergedToOne ==
    /\ fn.merge.pc = "merged"
    /\ fn.merge.hasTimestamps
    /\ fn.merge.proposals = << <<0, 0>>, <<1, 30>> >>
    /\ Retained = {1}

\* A request answered in this step found the lecture without a completed
\* chapter.
NoChapterCompleted == \A c \in Chapters : status[c] # "completed"

AnsweredWithNoneCompleted ==
    /\ http'.n = http.n + 1
    /\ lecture = "present"
    /\ NoChapterCompleted

\* C15: with no completed chapter, a generate-summary request and a pdf
\* request are answered with an error (their 400, or a 500 when the database
\* fails) and start nothing, and generateFinalSummary (at the end of a run or
\* started by a request) issues no summary call.
NothingWithoutCompleted ==
    [][/\ AnsweredWithNoneCompleted =>
             /\ http'.summary # http.summary =>
                   http'.summary \in {"400 No completed chapters to summarize",
                                      "400 API Key required", "500"}
             /\ http'.pdf # http.pdf =>
                   http'.pdf \in {"400 No completed chapters to export", "500"}
             /\ http'.summary \notin {"200 started"}
             /\ http'.pdf \notin {"200 pdf"}
             /\ pc' = pc
             /\ summary' = summary
       /\ \A r \in Runs :
             (pc[r] = "summary" /\ pc'[r] # "summary" /\ NoChapterCompleted)
                 => (pc'[r] = "done" /\ summary' = summary)]_vars

\* C15 witness: a lecture without a completed chapter, whose run has returned
\* without a summary, and both requests answered with their 400.
BothRejected ==
    /\ lecture = "present"
    /\ NoChapterCompleted
    /\ http.summary = "400 No completed chapters to summarize"
    /\ http.pdf = "400 No completed chapters to export"
    /\ summary = NoResult
    /\ \E r \in Runs : pc[r] = "done" /\ outcome[r] = "returned" /\ evs[r] # {}

\* C16: a final-summary generation starts only when every chapter of the
\* lecture is completed or error: none starts while a chapter is pending or
\* processing.
SummaryAfterAllTerminal ==
    [][\A r \in Runs :
          (pc[r] # "summarizing" /\ pc'[r] = "summarizing")
              => \A c \in Chapters : status[c] \in {"completed", "error"}]_vars

\* The entries of the response of the corrector's gateway call.
ReturnedEntries ==
    {fn.correct.response.corrections[k] :
        k \in 1..Len(fn.correct.response.corrections)}

AppliedEntries ==
    {fn.correct.result.corrections[k] :
        k \in 1..Len(fn.correct.result.corrections)}

\* C17: an entry of the response whose original does not occur verbatim in
\* the input segment is not among the returned valid corrections (and has not
\* changed the text).
OnlyVerbatimApplied ==
    (fn.correct.pc = "done" /\ fn.correct.response.kind = "ok") =>
        \A e \in ReturnedEntries :
            ~includes(fn.correct.segment, e.original) => e \notin AppliedEntries

\* The gateway call of the corrector has failed.
GatewayFailed == fn.correct.response.kind \in {"failed", "threw"}

\* C18: when the gateway call fails, by a result with success false or by an
\* exception, the result has the segment's whole text as correctedText,
\* success false, no corrections, and the error.
FailurePassesThrough ==
    (fn.correct.pc = "done" /\ GatewayFailed) =>
        /\ fn.correct.result.correctedText = fn.correct.segment
        /\ fn.correct.result.originalText = fn.correct.segment
        /\ ~fn.correct.result.success
        /\ fn.correct.result.corrections = <<>>
        /\ fn.correct.result.error = fn.correct.response.error

\* C18 witness: the call has thrown for a segment longer than
\* maxSegmentLength, and the whole segment has come back.
FailureKeptWholeText ==
    /\ fn.correct.pc = "done"
    /\ fn.correct.response.kind = "threw"
    /\ Len(fn.correct.segment) > fn.correct.cfg.maxSegmentLength
    /\ fn.correct.result.correctedText = fn.correct.segment
    /\ fn.correct.result.error = "Network error"

\* C19: for an empty or whitespace-only segment, and when correction is
\* disabled, correctWithLLM makes no gateway call and returns a success result
\* with the input as correctedText, no corrections, and the tag skipped.
ShortCircuitSkipped ==
    ( /\ fn.correct.pc = "done"
      /\ \/ ~fn.correct.cfg.enabled
         \/ \A k \in 1..Len(fn.correct.segment) : fn.correct.segment[k] = " " )
    => /\ fn.correct.calls = 0
       /\ fn.correct.result.success
       /\ fn.correct.result.correctedText = fn.correct.segment
       /\ fn.correct.result.corrections = <<>>
       /\ fn.correct.result.skipped = "true"

\* The lines some segment holds.
CoveredLines ==
    {i \in 0..(Len(fn.segmenter.lines) - 1) :
        \E k \in 1..Len(fn.segmenter.segments) :
            i \in fn.segmenter.segments[k].startLineIdx
                  ..fn.segmenter.segments[k].endLineIdx}

\* C20: for a transcript with timestamps, the segments' line ranges leave no
\* run of more than ContextLines consecutive lines of the transcript
\* uncovered, and the first segment contains the first timestamped line.
SegmentsCoverTranscript ==
    ( /\ fn.segmenter.pc = "split"
      /\ Timestamps(fn.segmenter.lines) # <<>> )
    => LET lines == fn.segmenter.lines
           segments == fn.segmenter.segments
           first == Timestamps(lines)[1].lineIndex
       IN  /\ \A i \in 0..(Len(lines) - 1 - ContextLines) :
                 \E j \in i..(i + ContextLines) : j \in CoveredLines
           /\ segments # <<>>
           /\ first \in segments[1].startLineIdx..segments[1].endLineIdx

\* C21: splitIntoSegments returns at least one segment for every transcript
\* that is not empty.
AtLeastOneSegment ==
    ( /\ fn.segmenter.pc = "split"
      /\ \E i \in 1..Len(fn.segmenter.lines) :
            \/ fn.segmenter.lines[i].stamp # <<>>
            \/ fn.segmenter.lines[i].text # "" )
    => Len(fn.segmenter.segments) >= 1

\* The paragraphs of the transcript given to splitByCharCount.
PackedParagraphs ==
    {trim(Paragraphs(fn.segmenter.lines, 1, <<>>)[k]) :
        k \in 1..Len(Paragraphs(fn.segmenter.lines, 1, <<>>))}

\* C22 as stated: every segment of splitByCharCount is at most
\* charsPerSegment long or is exactly one paragraph.
PackerAlwaysKeepsBudget ==
    ( /\ fn.segmenter.pc = "split"
      /\ fn.segmenter.byCharCount )
    => \A n \in 1..Len(fn.segmenter.segments) :
          \/ Len(fn.segmenter.segments[n].text) <= fn.segmenter.charsPerSegment
          \/ fn.segmenter.segments[n].text \in PackedParagraphs

\* C22: for a transcript with some text, every segment of splitByCharCount is
\* at most charsPerSegment long or is exactly one paragraph; a transcript of
\* nothing but whitespace is returned whole as one segment, whatever its
\* length.
PackerKeepsBudget ==
    IF \E i \in 1..Len(fn.segmenter.lines) : fn.segmenter.lines[i].text # ""
    THEN PackerAlwaysKeepsBudget
    ELSE ( /\ fn.segmenter.pc = "split"
           /\ fn.segmenter.byCharCount )
         => /\ Len(fn.segmenter.segments) = 1
            /\ fn.segmenter.segments[1].text = Text(fn.segmenter.lines)

\* A paragraph longer than the budget is a segment of its own, next to a
\* segment that packs two paragraphs within the budget.
PackerPacked ==
    /\ fn.segmenter.pc = "split"
    /\ fn.segmenter.byCharCount
    /\ \E n \in 1..Len(fn.segmenter.segments) :
          /\ Len(fn.segmenter.segments[n].text) > fn.segmenter.charsPerSegment
          /\ fn.segmenter.segments[n].text \in PackedParagraphs
    /\ \E n \in 1..Len(fn.segmenter.segments) :
          fn.segmenter.segments[n].text \notin PackedParagraphs

\* The timestamps at or before the start asked for, and those at or after the
\* end asked for, in the order of their lines.
AtOrBeforeStart ==
    SelectSeq(Timestamps(fn.slice.lines),
              LAMBDA t : t.time <= parseTime(fn.slice.startStr))

AtOrAfterEnd ==
    SelectSeq(Timestamps(fn.slice.lines),
              LAMBDA t : t.time >= parseTime(fn.slice.endStr))

\* C23: for a transcript with timestamps the slice is not empty, begins at or
\* before the line of the last timestamp <= start (at line 0 when there is
\* none) and reaches at least the line of the first timestamp >= end (the last
\* line of the document when there is none).
SliceBracketsRange ==
    ( /\ fn.slice.pc = "sliced"
      /\ Timestamps(fn.slice.lines) # <<>> )
    => /\ fn.slice.first <= fn.slice.last
       /\ \E i \in fn.slice.first..fn.slice.last :
             fn.slice.lines[i + 1].text # ""
       /\ IF AtOrBeforeStart # <<>>
          THEN fn.slice.first <= AtOrBeforeStart[Len(AtOrBeforeStart)].lineIndex
          ELSE fn.slice.first = 0
       /\ IF AtOrAfterEnd # <<>>
          THEN fn.slice.last >= AtOrAfterEnd[1].lineIndex
          ELSE fn.slice.last = Len(fn.slice.lines) - 1

\* A slice asked for from 5:00 to 20:00 of a transcript stamped 0:10 and
\* 31:00: it runs from the 0:10 line to the 31:00 line and stops before the end
\* of the document.
SliceBracketed ==
    /\ fn.slice.pc = "sliced"
    /\ fn.slice.startStr = <<5, 0>>
    /\ fn.slice.endStr = <<20, 0>>
    /\ AtOrBeforeStart # <<>>
    /\ AtOrAfterEnd # <<>>
    /\ fn.slice.first <= AtOrBeforeStart[Len(AtOrBeforeStart)].lineIndex
    /\ fn.slice.last = AtOrAfterEnd[1].lineIndex
    /\ fn.slice.last < Len(fn.slice.lines) - 1

\* C24: normalizing the text normalizeText returned, with the same config,
\* returns that text again.
NormalizeIdempotent ==
    fn.normalizer.pc = "twice" => fn.normalizer.again = fn.normalizer.text

\* The timestamps of the input: the matches of the timestamp pattern, found
\* from left to right.
InputTimestamps ==
    {protectTimestamps(fn.normalizer.input).map[k] :
        k \in 1..Len(protectTimestamps(fn.normalizer.input).map)}

\* C25: with preserveTimestamps, every timestamp of the input is a substring
\* of the normalized text.
TimestampsPreserved ==
    ( /\ fn.normalizer.pc # "idle"
      /\ fn.normalizer.cfg.preserveTimestamps )
    => \A ts \in InputTimestamps :
          \E i \in 1..(Len(fn.normalizer.text) - Len(ts) + 1) :
             SubSeq(fn.normalizer.text, i, i + Len(ts) - 1) = ts

\* A text with a bracketed timestamp, white space and blank lines that the
\* other steps changed while the timestamp came through.
TimestampKept ==
    /\ fn.normalizer.pc = "once"
    /\ fn.normalizer.cfg.preserveTimestamps
    /\ <<"[", "1", ":", "0", "0", ":", "0", "0", "]">> \in InputTimestamps
    /\ fn.normalizer.text # fn.normalizer.input
    /\ Len(fn.normalizer.text) > 9

\* C26: a segment whose chapter-proposal call fails contributes no chapter to
\* the merge and never aborts the creation: once the handler is past the
\* batches every segment has been processed, the merged chapters are those of
\* the segments that answered, only a rejected database statement ends the
\* request with 500, and a request that responded has inserted the lecture
\* row and one 'pending' row per merged chapter.
SegmentFailureContained ==
    LET c == fn.create
        Answered[j \in 0..c.n] ==
            IF j = 0 THEN <<>>
            ELSE IF c.results[j - 1].failed THEN Answered[j - 1]
            ELSE Answered[j - 1] \o c.results[j - 1].chapters
    IN  /\ c.pc = "failed" => dbFaults > 0
        /\ c.pc \in {"title", "lecture", "chapters", "responded"} =>
              /\ \A k \in 0..(c.n - 1) : c.results[k].done
              /\ c.allChapters = MergeChapters(Answered[c.n], c.hasTimestamps)
        /\ c.pc = "responded" =>
              /\ lecture = "present"
              /\ \A m \in Chapters :
                    status[m] = IF m <= Len(c.allChapters) THEN "pending" ELSE "none"

\* A request has responded although a segment of its first batch failed, and
\* the chapter a segment of the second batch proposed has its row.
SegmentFailureSurvived ==
    LET c == fn.create IN
    /\ c.pc = "responded"
    /\ \E k \in 0..(BatchSize - 1) : c.results[k].failed
    /\ \E j \in BatchSize..(c.n - 1) : c.results[j].chapters # <<>>
    /\ lecture = "present"
    /\ status[1] = "pending"

\* C27: no chapter row refers to a lecture that does not exist, and once a
\* DELETE of the lecture has been answered neither the lecture row nor any of
\* its chapter rows is in the store, also when the DELETE runs beside the
\* lecture's creation or its background processing.
DeletedLectureHasNoRows ==
    /\ lecture = "absent" => \A c \in Chapters : status[c] = "none"
    /\ fn.create.del = "done" =>
          /\ lecture = "absent"
          /\ \A c \in Chapters : status[c] = "none"

\* C28: a failure of an awaited operation while chapter k is handled in the
\* main loop, the UPDATEs to 'processing' and 'error' included, does not end
\* the loop: a run leaves processLectureBackground from the loop's head or
\* from a chapter's catch only when no row after chapter k is left to process.
LoopSurvivesChapterFailure ==
    [][\A r \in Runs :
          (pc[r] \in {"loop", "catch"} /\ pc'[r] = "done") =>
              LET k == IF pc[r] = "loop" THEN SkipCompleted(snap[r], idx[r])
                       ELSE idx[r]
              IN  SkipCompleted(snap[r], k + 1) > NumChapters]_vars

\* C29: the loop of preprocessTranscript that cuts the normalized transcript
\* into correction chunks terminates: every iteration that does not end the
\* loop leaves a remaining text strictly shorter than it found.
ChunkLoopShortens ==
    [][(fn.chunker.pc = "loop" /\ fn.chunker'.pc = "loop") =>
          Len(fn.chunker'.remaining) < Len(fn.chunker.remaining)]_vars

\* C30: after the merge for a timestamped transcript no two retained chapters
\* start within 120 seconds of each other, a difference of exactly 120
\* seconds counting as within the window.
NoRetainedWithinClosedWindow ==
    (fn.merge.pc = "merged" /\ fn.merge.hasTimestamps) =>
        \A i, j \in Retained : i # j => StartsApart(i, j) > DuplicateWindowSec

\* C31: once the accepted chapters are sorted, no chapter starts before the
\* end time of the chapter before it.
ChapterRangesNonDecreasing ==
    (fn.merge.pc = "merged" /\ fn.merge.hasTimestamps) =>
        \A k \in 2..Len(fn.merge.allChapters) :
            parseTime(fn.merge.allChapters[k].startTime) >=
                parseTime(fn.merge.ends[fn.merge.allChapters[k - 1].n])

\* C32: without timestamps the merge retains every proposed chapter, in
\* segment order and in proposal order within a segment: nothing is dropped
\* and nothing is reordered.
UntimedMergeKeepsAll ==
    (fn.merge.pc = "merged" /\ ~fn.merge.hasTimestamps) =>
        /\ Len(fn.merge.allChapters) = Len(fn.merge.proposals)
        /\ \A k \in 1..Len(fn.merge.allChapters) :
              /\ fn.merge.allChapters[k].n = k
              /\ fn.merge.allChapters[k].startTime = fn.merge.proposals[k]

\* C32 witness: three proposals without usable order (2:00, then 0:00 twice)
\* have been merged without timestamps and all three are kept as proposed.
UntimedMergeKept ==
    /\ fn.merge.pc = "merged"
    /\ ~fn.merge.hasTimestamps
    /\ fn.merge.proposals = << <<2, 0>>, <<0, 0>>, <<0, 0>> >>
    /\ Len(fn.merge.allChapters) = 3

BatchesBounded ==
    LET c == fn.create IN
    /\ c.pc \in {"correcting", "sleep"} =>
          /\ Cardinality(c.pending) <= DefaultBatchSize
          /\ c.pending \subseteq Batch(c.i, DefaultBatchSize, c.chunks)
    /\ c.pc \in {"batch", "delay"} =>
          /\ Cardinality(c.pending) <= BatchSize
          /\ c.pending \subseteq Batch(c.i, BatchSize, c.n)
          /\ \A k \in 0..(c.n - 1) :
                /\ k < c.i => c.results[k].done
                /\ c.results[k].done => k < c.i + BatchSize /\ k \notin c.pending
    /\ c.pc \in {"sleep", "delay"} => c.pending = {}
    /\ c.pc \notin {"correcting", "sleep", "batch", "delay"} => c.pending = {}

\* C34 witness: the second proposal batch of a request is in flight: the
\* three segments of the first batch have settled and only the fourth
\* segment's call is in flight.
SecondBatchInFlight ==
    LET c == fn.create IN
    /\ c.pc = "batch"
    /\ c.i = BatchSize
    /\ c.pending = {BatchSize}
    /\ \A k \in 0..(BatchSize - 1) : c.results[k].done

EventMatchesStore ==
    [][\A r \in Runs :
          /\ (pc[r] = "deepdive" /\ pc'[r] = "loop") =>
                status'[idx[r]] = "completed"
          /\ (pc[r] = "catch" /\ pc'[r] = "loop") =>
                status'[idx[r]] = "error"]_vars

\* C37: when a run sends 'complete' (the step in which it leaves
\* generateFinalSummary and returns), every chapter row of the lecture has
\* status 'completed' or 'error': none is 'pending' or 'processing'.
CompleteMeansAllSettled ==
    [][\A r \in Runs :
          (pc[r] \in {"summary", "summarizing"} /\ pc'[r] = "done") =>
              \A c \in Chapters :
                  status'[c] \in {"none", "completed", "error"}]_vars

\* C38: with LLM correction enabled, when no correction is applied (every
\* chunk's result is a failure or has an empty corrections list), the text
\* handed on to segmentation is the normalized transcript, character for
\* character.
UneditedTextUnchanged ==
    (fn.chunker.pc = "joined" /\ fn.chunker.applied = 0) =>
        fn.chunker.processedText = fn.chunker.normalized

\* C39: the retryCount of the result generateContent returns is the number of
\* retries it performed, that is the number of requests it sent to the
\* backend minus one, for a success and for a failure alike.
RetryCountIsRetries ==
    (gw.pc = "done" /\ gw.calls > 0) =>
        gw.result.retryCount = gw.calls - 1

====
